---- MODULE Spec2Model ----
(***************************************************************************)
(* Turn engine of the agents SDK: Runner.run (buffered) and                *)
(* Runner.runStreamed (streaming), with the guardrail runner, the response *)
(* classifier, the tool and handoff executors they share.                  *)
(***************************************************************************)
EXTENDS Integers, Sequences, FiniteSets, TLC

VARIABLES
    mode,                   \* entry point in use: "buffered" (Runner.run) or "streamed" (Runner.runStreamed)
    maxTurns,               \* options.maxTurns
    pc,                     \* position of the run loop
    currentTurn,            \* currentTurn / streamedResult.currentTurn
    currentAgent,           \* currentAgent
    generatedItems,         \* generatedItems / currentGeneratedItems
    rawResponses,           \* modelResponses / streamedResult.rawResponses (response ids)
    newResponse,            \* the ModelResponse of the turn in progress
    usage,                  \* contextWrapper.usage
    modelCalls,             \* number of getResponse / streamResponse invocations
    decisions,              \* the NextStep of every completed turn, in order
    inputGuardrails,        \* outcome of each input guardrail function, in issuance order
    igTask,                 \* state of each input guardrail promise
    igYield,                \* _yieldResults: settled and not yet yielded, in completion order
    igQueue,                \* streamedResult._input_guardrail_queue
    inputGuardrailResults,  \* inputGuardrailResults
    outputGuardrails,       \* outcome of each output guardrail function, in issuance order
    ogTask,                 \* state of each output guardrail promise
    outputGuardrailResults, \* outputGuardrailResults
    turnOutput,             \* turnResult.nextStep.output of the final turn
    finalOutput,            \* RunResult.finalOutput / streamedResult.finalOutput
    error,                  \* the exception Runner.run rejects with / the error recorded by setError
    returned,               \* Runner.run resolved with a RunResult
    isComplete,             \* streamedResult.isComplete
    eventQueue,             \* streamedResult._event_queue
    consumed,               \* number of queue entries the consumer has taken
    first,                  \* outcome of the buffered run a streamed run is compared with
    inputFilter,            \* handoff.inputFilter of the handoff of the starting agent
    handoffInputFilter,     \* runConfig.handoffInputFilter
    originalInput,          \* originalInput / currentOriginalInput
    shouldRunAgentStartHooks, \* shouldRunAgentStartHooks
    toolUseTracker,         \* toolUseTracker: the agents that have used tools
    callLog,                \* calls made to hooks, guardrails, filters and the model, in order
    stepPc,                 \* position inside one step (_getSingleStepResultFromResponse)
    stepAgent,              \* the agent of the step
    stepResponse,           \* newResponse.output of the step
    stepProcessed,          \* processedResponse
    toolTask,               \* state of each runSingleTool promise
    toolValues,             \* what each runSingleTool promise resolved with
    toolOrder,              \* indices of the function tool calls in completion order
    computerLog,            \* calls made on the computer, in order
    toolLog,                \* tool hooks, tool invocations and tool results, in order
    handoffsInvoked,        \* handoff requests whose onInvokeHandoff was called, in order
    stepResult,             \* the SingleStepResult, or the error thrown
    clonePc,                \* position of the caller of Agent.clone
    thisAgent,              \* the fields of the agent clone is called on
    agentBefore,            \* the fields of that agent when it was constructed
    cloneOverrides,         \* the overrides passed to clone
    clonedAgent,            \* the fields of the agent clone returned
    scopePc,                \* position of the run loop as far as spans are concerned
    scopeTurn,              \* currentTurn of that run
    runnerSpan,             \* the local currentSpan of Runner.run: the agent span, or null
    currentSpan,            \* the value of the context variable current_span
    spans,                  \* every span created: its state, its token and its reports
    scopeOps,               \* the scoped operations launched: kind and outcome by span
    actionPc,               \* position of ComputerAction.execute
    toolCall,               \* the computer call being executed
    computerIsAsync,        \* whether the computer of the tool is an AsyncComputer
    computerCalls,          \* the methods called on that computer, in order, with arguments
    actionOutput,           \* the raw item of the ToolCallOutputItem returned
    processorPc,            \* whether a BatchTraceProcessor has been constructed
    maxQueueSize,           \* BatchTraceProcessor.maxQueueSize
    maxBatchSize,           \* BatchTraceProcessor.maxBatchSize
    processorQueue,         \* BatchTraceProcessor.queue
    isShutdown,             \* BatchTraceProcessor.isShutdown
    arrived,                \* number of traces and spans handed to the processor so far
    accepted,               \* the ones it pushed on its queue, in order
    exportedBatches,        \* the calls of exporter.export: the items and whether forced
    lastCall                \* the method of the processor called last

vars == <<mode, maxTurns, pc, currentTurn, currentAgent, generatedItems, rawResponses,
          newResponse, usage, modelCalls, decisions, inputGuardrails, igTask, igYield,
          igQueue, inputGuardrailResults, outputGuardrails, ogTask, outputGuardrailResults,
          turnOutput, finalOutput, error, returned, isComplete, eventQueue, consumed, first,
          inputFilter, handoffInputFilter, originalInput, shouldRunAgentStartHooks,
          toolUseTracker, callLog,
          stepPc, stepAgent, stepResponse, stepProcessed, toolTask, toolValues,
          toolOrder, computerLog, toolLog, handoffsInvoked, stepResult,
          clonePc, thisAgent, agentBefore, cloneOverrides, clonedAgent,
          scopePc, scopeTurn, runnerSpan, currentSpan, spans, scopeOps,
          actionPc, toolCall, computerIsAsync, computerCalls, actionOutput,
          processorPc, maxQueueSize, maxBatchSize, processorQueue, isShutdown, arrived,
          accepted, exportedBatches, lastCall>>

-----------------------------------------------------------------------------
(* Bounds of the model *)

MaxTurnsBound == 2
MaxGuardrails == 2

-----------------------------------------------------------------------------
(* Values *)

Null == "null"

Undefined == "undefined"

Modes == {"buffered", "streamed"}

GuardrailOutcomes == {"pass", "trip", "throw"}

RECURSIVE SeqsUpTo(_, _)
SeqsUpTo(S, n) ==
    IF n = 0 THEN {<<>>}
    ELSE LET shorter == SeqsUpTo(S, n - 1)
         IN  shorter \cup {Append(s, x) : s \in {t \in shorter : Len(t) = n - 1}, x \in S}

GuardrailLists == SeqsUpTo(GuardrailOutcomes, MaxGuardrails)

NoError == [kind |-> "none", guardrail |-> 0]
Err(kind) == [kind |-> kind, guardrail |-> 0]
Tripwire(kind, i) == [kind |-> kind, guardrail |-> i]

ZeroUsage == [requests |-> 0, input_tokens |-> 0, output_tokens |-> 0, total_tokens |-> 0]

UsageAdd(u, other) ==
    [requests      |-> u.requests + other.requests,
     input_tokens  |-> u.input_tokens + other.input_tokens,
     output_tokens |-> u.output_tokens + other.output_tokens,
     total_tokens  |-> u.total_tokens + other.total_tokens]

-----------------------------------------------------------------------------
(* Agents *)

StartingAgent == "A"

\* the agent of a plain run: no tools, no handoffs, plain-text output
PlainAgent == "C"

\* the agents whose single step is followed call by call
StepAgents == {"D", "E", "F"}

\* agents with an output type: "S" with Object, "W" with a class
StructuredAgents == {"S", "W"}

\* agent.output_type
AgentOutputType(agent) ==
    CASE agent = "S" -> "Object"
      [] agent = "W" -> "Weather"
      [] OTHER -> Undefined

AgentTools(agent) ==
    CASE agent = "A" -> {"t1", "t_boom"}
      [] agent = "B" -> {"t1"}
      [] agent \in StepAgents -> {"t1", "t2", "t_fail", "t_boom"}
      [] agent \in StructuredAgents -> {"t1"}
      [] OTHER -> {}

\* agent.mcp_servers
AgentMcpServers(agent) == IF agent \in StepAgents THEN {"srv"} ELSE {}

\* the tools server.listTools() returns
McpServerTools(server) == {"t_mcp"}

\* Runner._getAllTools: [...agent.tools, ...agent.mcp_servers]
AllTools(agent) ==
    {[class |-> "FunctionTool", name |-> t] : t \in AgentTools(agent)}
        \cup {[class |-> "MCPServer", name |-> server] : server \in AgentMcpServers(agent)}

\* functionMap of processModelResponse: allTools.filter(tool => tool instanceof FunctionTool)
FunctionMap(agent) == {tool.name : tool \in {t \in AllTools(agent) : t.class = "FunctionTool"}}

\* no on_invoke_tool ever rejects
ToolThrows_Never(name) == FALSE

\* on_invoke_tool of "t_boom" was built with failureErrorFunction = null and throws
ToolThrows(name) == name = "t_boom"

\* "t_fail" was built with the default failureErrorFunction and its function throws
ToolFails(name) == name = "t_fail"

\* defaultToolErrorFunction, for the error message "boom"
DefaultToolErrorText == "An error occurred while running the tool. Please try again. Error: boom"

\* what on_invoke_tool resolves with
ToolValue(name) ==
    CASE ToolFails(name) -> DefaultToolErrorText
      [] name = "t2" -> "rainy"
      [] OTHER -> "sunny"

AgentHasComputer(agent) == agent \in {"D", "F"}

\* computerTool.computer instanceof AsyncComputer
AgentComputerIsAsync(agent) == agent = "D"

AgentHandoffs(agent) ==
    CASE agent = "A" -> {"B"}
      [] agent \in StepAgents -> {"B", "C"}
      [] OTHER -> {}

\* Handoff.defaultToolName: transformStringFunctionStyle lower-cases the name
DefaultToolName(agent) ==
    CASE agent = "A" -> "transfer_to_a"
      [] agent = "B" -> "transfer_to_b"
      [] agent = "C" -> "transfer_to_c"
      [] agent = "D" -> "transfer_to_d"
      [] agent = "E" -> "transfer_to_e"
      [] agent = "F" -> "transfer_to_f"

HandoffToolNames(agent) == {DefaultToolName(b) : b \in AgentHandoffs(agent)}

HandoffTarget(agent, name) == CHOOSE b \in AgentHandoffs(agent) : DefaultToolName(b) = name

ToolUseBehavior(agent) ==
    CASE agent = "E" -> "stop_on_first_tool"
      [] agent = "F" -> "stop_at_tool_names"
      [] OTHER -> "run_llm_again"

\* agent.tool_use_behavior.stop_at_tool_names
StopAtToolNames(agent) == IF agent = "F" THEN {"t2", "t_fail"} ELSE {}

-----------------------------------------------------------------------------
(* Model responses *)

Message(text) == [type |-> "message", name |-> Null, call_id |-> Null, text |-> text]
FunctionCall(name, id) == [type |-> "function_call", name |-> name, call_id |-> id, text |-> Null]

Responses ==
    { [id |-> "resp_msg", output |-> <<Message("hello")>>,
       usage |-> [requests |-> 1, input_tokens |-> 2, output_tokens |-> 1, total_tokens |-> 3]],
      [id |-> "resp_tool", output |-> <<FunctionCall("t1", "call_1")>>,
       usage |-> [requests |-> 1, input_tokens |-> 1, output_tokens |-> 1, total_tokens |-> 2]],
      [id |-> "resp_handoff", output |-> <<FunctionCall("transfer_to_b", "call_2")>>,
       usage |-> [requests |-> 1, input_tokens |-> 1, output_tokens |-> 2, total_tokens |-> 3]],
      [id |-> "resp_boom", output |-> <<FunctionCall("t_boom", "call_4")>>,
       usage |-> [requests |-> 1, input_tokens |-> 2, output_tokens |-> 2, total_tokens |-> 4]],
      [id |-> "resp_unknown", output |-> <<FunctionCall("no_such_tool", "call_3")>>,
       usage |-> [requests |-> 1, input_tokens |-> 1, output_tokens |-> 0, total_tokens |-> 1]] }

NoResponse == [id |-> Null, output |-> <<>>, usage |-> ZeroUsage]

\* a message whose content array is empty
NoContent == "<no content>"

\* responses made of messages only: one text; two texts; a refusal (no text part); a
\* message with no content part at all
PlainResponses ==
    { [id |-> "resp_text", output |-> <<Message("hello")>>,
       usage |-> [requests |-> 1, input_tokens |-> 2, output_tokens |-> 1, total_tokens |-> 3]],
      [id |-> "resp_two_texts", output |-> <<Message("draft"), Message("final")>>,
       usage |-> [requests |-> 1, input_tokens |-> 2, output_tokens |-> 2, total_tokens |-> 4]],
      [id |-> "resp_refusal", output |-> <<Message(Null)>>,
       usage |-> [requests |-> 1, input_tokens |-> 1, output_tokens |-> 1, total_tokens |-> 2]],
      [id |-> "resp_no_content", output |-> <<Message(NoContent)>>,
       usage |-> [requests |-> 1, input_tokens |-> 1, output_tokens |-> 0, total_tokens |-> 1]] }

\* texts of a message: a JSON object with the key 'response', a JSON object without it, a
\* JSON number, a text that is not JSON
WrappedJson == "{\"response\": 7}"
ObjectJson == "{\"city\": \"Oslo\"}"
NumberJson == "42"
NotJson == "It is sunny"

\* responses to an agent with an output type: a message of each text and of the empty text,
\* alone or with a call of a function tool, and a call alone
StructuredResponses ==
    { [id |-> "resp_wrapped", output |-> <<Message(WrappedJson)>>,
       usage |-> [requests |-> 1, input_tokens |-> 2, output_tokens |-> 1, total_tokens |-> 3]],
      [id |-> "resp_object", output |-> <<Message(ObjectJson)>>,
       usage |-> [requests |-> 1, input_tokens |-> 2, output_tokens |-> 2, total_tokens |-> 4]],
      [id |-> "resp_number", output |-> <<Message(NumberJson)>>,
       usage |-> [requests |-> 1, input_tokens |-> 2, output_tokens |-> 3, total_tokens |-> 5]],
      [id |-> "resp_not_json", output |-> <<Message(NotJson)>>,
       usage |-> [requests |-> 1, input_tokens |-> 2, output_tokens |-> 4, total_tokens |-> 6]],
      [id |-> "resp_empty_text", output |-> <<Message("")>>,
       usage |-> [requests |-> 1, input_tokens |-> 2, output_tokens |-> 0, total_tokens |-> 2]],
      [id |-> "resp_wrapped_tool", output |-> <<Message(WrappedJson), FunctionCall("t1", "call_1")>>,
       usage |-> [requests |-> 1, input_tokens |-> 3, output_tokens |-> 1, total_tokens |-> 4]],
      [id |-> "resp_not_json_tool", output |-> <<Message(NotJson), FunctionCall("t1", "call_1")>>,
       usage |-> [requests |-> 1, input_tokens |-> 3, output_tokens |-> 2, total_tokens |-> 5]],
      [id |-> "resp_tool_only", output |-> <<FunctionCall("t1", "call_1")>>,
       usage |-> [requests |-> 1, input_tokens |-> 3, output_tokens |-> 0, total_tokens |-> 3]] }

\* what the model answers the agent with
ModelResponses(agent) ==
    IF agent = PlainAgent THEN PlainResponses
    ELSE IF agent \in StructuredAgents THEN StructuredResponses
    ELSE Responses

ResponseById(id) ==
    CHOOSE r \in Responses \cup PlainResponses \cup StructuredResponses : r.id = id

-----------------------------------------------------------------------------
(* Run items *)

Item(kind, agent, call_id, text) == [kind |-> kind, agent |-> agent, call_id |-> call_id, text |-> text]

MessageOutputItem(agent, o) == Item("message_output_item", agent, Null, o.text)
ToolCallItem(agent, o) == Item("tool_call_item", agent, o.call_id, o.name)
\* a reasoning output recorded as a tool call
ReasoningItem_AsToolCall(agent, o) == Item("tool_call_item", agent, Null, Null)
ReasoningItem(agent, o) == Item("reasoning_item", agent, Null, Null)
HandoffCallItem(agent, o) == Item("handoff_call_item", agent, o.call_id, o.name)
ToolCallOutputItem(agent, call, output) == Item("tool_call_output_item", agent, call.call_id, output)
HandoffOutputItem(agent, call, newAgent) == Item("handoff_output_item", agent, call.call_id, newAgent)

-----------------------------------------------------------------------------
(* RunImpl.processModelResponse *)

EmptyProcessed ==
    [ok |-> TRUE, newItems |-> <<>>, handoffs |-> <<>>, functions |-> <<>>,
     computerActions |-> <<>>, toolsUsed |-> <<>>]

ProcessOutput(agent, o, acc) ==
    CASE o.type = "message" ->
            [acc EXCEPT !.newItems = Append(@, MessageOutputItem(agent, o))]
      [] o.type = "file_search_call" ->
            [acc EXCEPT !.newItems = Append(@, ToolCallItem(agent, o)),
                        !.toolsUsed = Append(@, "file_search")]
      [] o.type = "web_search_call" ->
            [acc EXCEPT !.newItems = Append(@, ToolCallItem(agent, o)),
                        !.toolsUsed = Append(@, "web_search")]
      [] o.type = "reasoning" ->
            [acc EXCEPT !.newItems = Append(@, ReasoningItem(agent, o))]
      [] o.type = "computer_call" ->
            IF ~AgentHasComputer(agent)
            THEN [acc EXCEPT !.ok = FALSE,
                             !.newItems = Append(@, ToolCallItem(agent, o)),
                             !.toolsUsed = Append(@, "computer_use")]
            ELSE [acc EXCEPT !.newItems = Append(@, ToolCallItem(agent, o)),
                             !.toolsUsed = Append(@, "computer_use"),
                             !.computerActions = Append(@, o)]
      [] o.type = "function_call" ->
            IF o.name \in HandoffToolNames(agent)
            THEN [acc EXCEPT !.newItems = Append(@, HandoffCallItem(agent, o)),
                             !.toolsUsed = Append(@, o.name),
                             !.handoffs = Append(@, o)]
            ELSE IF o.name \notin FunctionMap(agent)
            THEN [acc EXCEPT !.ok = FALSE, !.toolsUsed = Append(@, o.name)]
            ELSE [acc EXCEPT !.newItems = Append(@, ToolCallItem(agent, o)),
                             !.toolsUsed = Append(@, o.name),
                             !.functions = Append(@, o)]
      [] OTHER -> acc

RECURSIVE ProcessOutputs(_, _, _)
ProcessOutputs(agent, output, acc) ==
    IF output = <<>> \/ ~acc.ok THEN acc
    ELSE ProcessOutputs(agent, Tail(output), ProcessOutput(agent, Head(output), acc))

ProcessModelResponse(agent, response) == ProcessOutputs(agent, response.output, EmptyProcessed)

HasToolsToRun(p) == Len(p.handoffs) > 0 \/ Len(p.functions) > 0 \/ Len(p.computerActions) > 0

-----------------------------------------------------------------------------
(* RunImpl.executeToolsAndSideEffects and what it calls *)

NextStepFinalOutput(output) == [type |-> "final_output", output |-> output, newAgent |-> Null]
NextStepHandoff(newAgent) == [type |-> "handoff", output |-> Null, newAgent |-> newAgent]
NextStepRunAgain == [type |-> "run_again", output |-> Null, newAgent |-> Null]

StepFailed(kind) == [ok |-> FALSE, errKind |-> kind, newStepItems |-> <<>>, nextStep |-> NextStepRunAgain]
StepDone(items, nextStep) == [ok |-> TRUE, errKind |-> "none", newStepItems |-> items, nextStep |-> nextStep]

SeqMap(Op(_), s) == [i \in 1..Len(s) |-> Op(s[i])]

\* results of the batch of function tools, correlated with the calls by position
FunctionToolResult(agent, call, result) ==
    [tool |-> call.name, output |-> result, run_item |-> ToolCallOutputItem(agent, call, result)]

ExecuteFunctionToolCalls(agent, toolRuns) ==
    LET result(call) == FunctionToolResult(agent, call, ToolValue(call.name))
    IN  [ok |-> \A i \in 1..Len(toolRuns) : ~ToolThrows(toolRuns[i].name),
         results |-> SeqMap(result, toolRuns)]

\* ComputerAction.execute: the item made of the screenshot taken after the action
ComputerActionOutput(agent, call) == ToolCallOutputItem(agent, call, "screenshot")

ExecuteComputerActions(agent, actions) ==
    LET screenshot(call) == ComputerActionOutput(agent, call)
    IN  SeqMap(screenshot, actions)

IgnoredHandoffMessage == "Multiple handoffs detected, ignoring this one."

\* executeHandoffs honouring the last request instead of the first
ExecuteHandoffs_Last(agent, newStepItems, runHandoffs) ==
    LET ignored(call) == ToolCallOutputItem(agent, call, IgnoredHandoffMessage)
        actualHandoff == runHandoffs[Len(runHandoffs)]
        newAgent == HandoffTarget(agent, actualHandoff.name)
    IN  StepDone(newStepItems \o SeqMap(ignored, SubSeq(runHandoffs, 1, Len(runHandoffs) - 1))
                     \o <<HandoffOutputItem(agent, actualHandoff, newAgent)>>,
                 NextStepHandoff(newAgent))

ExecuteHandoffs(agent, newStepItems, runHandoffs) ==
    LET ignored(call) == ToolCallOutputItem(agent, call, IgnoredHandoffMessage)
        actualHandoff == runHandoffs[1]
        newAgent == HandoffTarget(agent, actualHandoff.name)
    IN  StepDone(newStepItems \o SeqMap(ignored, Tail(runHandoffs))
                     \o <<HandoffOutputItem(agent, actualHandoff, newAgent)>>,
                 NextStepHandoff(newAgent))

\* executeHandoffs calls handoff.onInvokeHandoff of actualHandoff and of no other request
InvokedHandoffs(runHandoffs) == <<runHandoffs[1].call_id>>

NotFinalOutput == [isFinalOutput |-> FALSE, finalOutput |-> Null]

CheckForFinalOutputFromTools(agent, toolResults) ==
    IF Len(toolResults) = 0 THEN NotFinalOutput
    ELSE IF ToolUseBehavior(agent) = "run_llm_again" THEN NotFinalOutput
    ELSE IF ToolUseBehavior(agent) = "stop_on_first_tool"
         THEN [isFinalOutput |-> TRUE, finalOutput |-> toolResults[1].output]
    ELSE IF ToolUseBehavior(agent) = "stop_at_tool_names"
         THEN LET named == {i \in 1..Len(toolResults) :
                               toolResults[i].tool \in StopAtToolNames(agent)}
              IN  IF named = {} THEN NotFinalOutput
                  ELSE [isFinalOutput |-> TRUE,
                        finalOutput |-> toolResults[CHOOSE i \in named :
                                                       \A j \in named : i <= j].output]
    ELSE NotFinalOutput

\* newStepItems.filter(item => item instanceof MessageOutputItem)
MessageItems(items) ==
    LET isMessage(item) == item.kind = "message_output_item"
    IN  SelectSeq(items, isMessage)

\* ItemHelpers.extractLastText reads 'text' in content[content.length - 1]: with an empty
\* content array that operand is undefined and the expression throws a TypeError
ExtractLastTextThrows(items) ==
    LET messageItems == MessageItems(items)
    IN  Len(messageItems) > 0 /\ messageItems[Len(messageItems)].text = NoContent

LastMessageText(items) ==
    LET idx == {i \in 1..Len(items) : items[i].kind = "message_output_item"}
    IN  IF idx = {} THEN Null ELSE items[CHOOSE i \in idx : \A j \in idx : j <= i].text

\* Runner._getOutputSchema: no schema for an agent without an output type
NoSchema == [outputType |-> Undefined, isWrapped |-> FALSE]

\* new AgentOutputSchema(outputType): every type other than Object is wrapped
AgentOutputSchema(outputType) == [outputType |-> outputType, isWrapped |-> outputType # "Object"]

GetOutputSchema(agent) ==
    IF AgentOutputType(agent) \in {Undefined, Null, "String"} THEN NoSchema
    ELSE AgentOutputSchema(AgentOutputType(agent))

IsPlainText(schema) == schema.outputType \in {Undefined, Null, "String"}

WRAPPER_DICT_KEY == "response"

\* JSON.parse of the texts of the model: whether it returns, the typeof of the value, the
\* keys of the value and the value under WRAPPER_DICT_KEY
JSONParse(jsonStr) ==
    CASE jsonStr = WrappedJson ->
            [ok |-> TRUE, typeof |-> "object", keys |-> {"response"}, value |-> WrappedJson,
             response |-> "7"]
      [] jsonStr = ObjectJson ->
            [ok |-> TRUE, typeof |-> "object", keys |-> {"city"}, value |-> ObjectJson,
             response |-> Undefined]
      [] jsonStr = NumberJson ->
            [ok |-> TRUE, typeof |-> "number", keys |-> {}, value |-> NumberJson,
             response |-> Undefined]
      [] OTHER ->
            [ok |-> FALSE, typeof |-> Undefined, keys |-> {}, value |-> Undefined,
             response |-> Undefined]

Validated(value) == [ok |-> TRUE, value |-> value]
Invalid == [ok |-> FALSE, value |-> Undefined]

\* validateJson returning parsed[WRAPPER_DICT_KEY] without looking for the key
ValidateJson_KeyNotChecked(schema, jsonStr) ==
    LET parsed == JSONParse(jsonStr)
    IN  IF ~parsed.ok THEN Invalid
        ELSE IF schema.isWrapped
             THEN IF parsed.typeof # "object" THEN Invalid
                  ELSE Validated(parsed.response)
        ELSE Validated(parsed.value)

\* AgentOutputSchema.validateJson: the validated value, or ModelBehaviorError
ValidateJson(schema, jsonStr) ==
    LET parsed == JSONParse(jsonStr)
    IN  IF ~parsed.ok THEN Invalid
        ELSE IF schema.isWrapped
             THEN IF parsed.typeof # "object" THEN Invalid
                  ELSE IF WRAPPER_DICT_KEY \notin parsed.keys THEN Invalid
                  ELSE Validated(parsed.response)
        ELSE Validated(parsed.value)

\* a string that is neither null nor empty
Truthy(text) == text \notin {Null, ""}

\* executeToolsAndSideEffects giving an agent with an output type the rule of the plain
\* text: a final output only when there is no tool to run
DecideNextStep_PlainRule(agent, processed, functionResults, computerResults) ==
    LET runItem(r) == r.run_item
        newStepItems == processed.newItems \o SeqMap(runItem, functionResults)
                            \o computerResults
        checkToolUse == CheckForFinalOutputFromTools(agent, functionResults)
        potentialFinalOutputText == LastMessageText(newStepItems)
        outputSchema == GetOutputSchema(agent)
    IN  IF Len(processed.handoffs) > 0
        THEN ExecuteHandoffs(agent, newStepItems, processed.handoffs)
        ELSE IF checkToolUse.isFinalOutput
             THEN StepDone(newStepItems, NextStepFinalOutput(checkToolUse.finalOutput))
        ELSE IF ExtractLastTextThrows(newStepItems) THEN StepFailed("TypeError")
        ELSE IF HasToolsToRun(processed) THEN StepDone(newStepItems, NextStepRunAgain)
        ELSE IF outputSchema # NoSchema /\ ~IsPlainText(outputSchema)
                    /\ Truthy(potentialFinalOutputText)
             THEN LET validated == ValidateJson(outputSchema, potentialFinalOutputText)
                  IN  IF validated.ok
                      THEN StepDone(newStepItems, NextStepFinalOutput(validated.value))
                      ELSE StepFailed("ModelBehaviorError")
        ELSE StepDone(newStepItems,
                      NextStepFinalOutput(IF potentialFinalOutputText = Null THEN ""
                                          ELSE potentialFinalOutputText))

\* executeToolsAndSideEffects looking at the tool-use policy before the handoffs
DecideNextStep_PolicyFirst(agent, processed, functionResults, computerResults) ==
    LET runItem(r) == r.run_item
        newStepItems == processed.newItems \o SeqMap(runItem, functionResults)
                            \o computerResults
        checkToolUse == CheckForFinalOutputFromTools(agent, functionResults)
    IN  IF checkToolUse.isFinalOutput
        THEN StepDone(newStepItems, NextStepFinalOutput(checkToolUse.finalOutput))
        ELSE IF Len(processed.handoffs) > 0
        THEN ExecuteHandoffs(agent, newStepItems, processed.handoffs)
        ELSE StepDone(newStepItems, NextStepRunAgain)

\* RunImpl.executeToolsAndSideEffects from the point where the tools have returned
DecideNextStep(agent, processed, functionResults, computerResults) ==
    LET runItem(r) == r.run_item
        newStepItems == processed.newItems \o SeqMap(runItem, functionResults)
                            \o computerResults
        checkToolUse == CheckForFinalOutputFromTools(agent, functionResults)
        potentialFinalOutputText == LastMessageText(newStepItems)
        outputSchema == GetOutputSchema(agent)
    IN  IF Len(processed.handoffs) > 0
        THEN ExecuteHandoffs(agent, newStepItems, processed.handoffs)
        ELSE IF checkToolUse.isFinalOutput
             THEN StepDone(newStepItems, NextStepFinalOutput(checkToolUse.finalOutput))
        ELSE IF ExtractLastTextThrows(newStepItems) THEN StepFailed("TypeError")
        ELSE IF outputSchema # NoSchema /\ ~IsPlainText(outputSchema)
                    /\ Truthy(potentialFinalOutputText)
             THEN LET validated == ValidateJson(outputSchema, potentialFinalOutputText)
                  IN  IF validated.ok
                      THEN StepDone(newStepItems, NextStepFinalOutput(validated.value))
                      ELSE StepFailed("ModelBehaviorError")
        ELSE IF (outputSchema = NoSchema \/ IsPlainText(outputSchema))
                    /\ ~HasToolsToRun(processed)
             THEN StepDone(newStepItems,
                           NextStepFinalOutput(IF potentialFinalOutputText = Null THEN ""
                                               ELSE potentialFinalOutputText))
        ELSE StepDone(newStepItems, NextStepRunAgain)

ExecuteToolsAndSideEffects(agent, processed) ==
    LET functionResults == ExecuteFunctionToolCalls(agent, processed.functions)
        computerResults == ExecuteComputerActions(agent, processed.computerActions)
    IN  IF ~functionResults.ok THEN StepFailed("UserError")
        ELSE DecideNextStep(agent, processed, functionResults.results, computerResults)

\* Runner._getSingleStepResultFromResponse
GetSingleStepResult(agent, response) ==
    LET processedResponse == ProcessModelResponse(agent, response)
    IN  IF ~processedResponse.ok THEN StepFailed("ModelBehaviorError")
        ELSE ExecuteToolsAndSideEffects(agent, processedResponse)

-----------------------------------------------------------------------------
(* Calls observed during a run *)

RunWide == "run"

NoInput == [history |-> <<>>, items |-> <<>>, newItems |-> <<>>]

\* a call of `call` on the hooks, guardrails or filter of `owner` (an agent, or RunWide
\* for RunHooks and runConfig), with its agent argument and its other argument
Call(call, owner, agent, other) ==
    [call |-> call, owner |-> owner, agent |-> agent, other |-> other, input |-> NoInput]

\* [...agent.input_guardrails, ...runConfig.inputGuardrails]: the first guardrail of the
\* list is the agent's own, the ones after it are run-wide
GuardrailOwner(agent, i) == IF i = 1 THEN agent ELSE RunWide

GuardrailName(i) == "guardrail_" \o ToString(i)

\* guardrails.map(guardrail => RunImpl.runSingleInputGuardrail(...))
InputGuardrailCalls(agent, list) ==
    [i \in 1..Len(list) |-> Call("input_guardrail", GuardrailOwner(agent, i), agent,
                                 GuardrailName(i))]

\* the output guardrails taken from the agent the run started with
OutputGuardrailCalls_OfStartingAgent(agent, list) ==
    [i \in 1..Len(list) |-> Call("output_guardrail", GuardrailOwner(StartingAgent, i),
                                 StartingAgent, GuardrailName(i))]

\* guardrails.map(guardrail => RunImpl.runSingleOutputGuardrail(...)) over
\* [...currentAgent.output_guardrails, ...runConfig.outputGuardrails]
OutputGuardrailCalls(agent, list) ==
    [i \in 1..Len(list) |-> Call("output_guardrail", GuardrailOwner(agent, i), agent,
                                 GuardrailName(i))]

\* Promise.all([hooks.onAgentStart(contextWrapper, agent), agent.hooks.onStart(...)])
AgentStartHookCalls(agent) ==
    <<Call("onAgentStart", RunWide, agent, Null), Call("onStart", agent, agent, Null)>>

\* Promise.all([hooks.onHandoff(contextWrapper, agent, newAgent),
\*              agent.hooks.onHandoff(contextWrapper, newAgent, agent)])
HandoffHookCalls(agent, newAgent) ==
    <<Call("onHandoff", RunWide, agent, newAgent), Call("onHandoff", agent, newAgent, agent)>>

-----------------------------------------------------------------------------
(* Model settings *)


\* agent.model_settings.tool_choice
AgentToolChoice(agent) == IF agent \in {"A", "B"} THEN "required" ELSE "auto"

\* agent.reset_tool_choice
ResetToolChoice(agent) == agent # "B"

ModelSettings(tool_choice) == [tool_choice |-> tool_choice]

\* resolve() called without an override
NoOverride == [tool_choice |-> Undefined, absent |-> TRUE]

\* ModelSettings.resolve
ModelSettingsResolve(settings, override) ==
    IF override = NoOverride THEN settings
    ELSE ModelSettings(IF override.tool_choice # Undefined THEN override.tool_choice
                       ELSE settings.tool_choice)

\* AgentToolUseTracker.hasUsedTools
HasUsedTools(tracker, agent) == agent \in tracker

\* RunImpl.maybeResetToolChoice
MaybeResetToolChoice(agent, tracker, modelSettings) ==
    IF ResetToolChoice(agent) /\ HasUsedTools(tracker, agent)
    THEN ModelSettingsResolve(modelSettings, NoOverride)
    ELSE modelSettings

\* the model settings Runner._getNewResponse / _runSingleTurnStreamed pass to the model;
\* runConfig.modelSettings is not set
ResolvedSettings(agent, tracker) ==
    LET modelSettings == ModelSettingsResolve(ModelSettings(AgentToolChoice(agent)), NoOverride)
        resolvedSettings == MaybeResetToolChoice(agent, tracker, modelSettings)
    IN  IF AllTools(agent) # {} /\ resolvedSettings.tool_choice = Undefined
        THEN ModelSettingsResolve(resolvedSettings, ModelSettings("auto"))
        ELSE resolvedSettings

\* model.getResponse / model.streamResponse with the settings and the input
\* inputToNewInputList(originalInput) ++ generatedItems.map(toInputItem)
ModelCall(agent, tracker, original, items) ==
    [call |-> "getResponse", owner |-> "model", agent |-> agent,
     other |-> ResolvedSettings(agent, tracker).tool_choice,
     input |-> [history |-> original, items |-> items, newItems |-> <<>>]]

\* toolUseTracker.addToolUse(agent, processedResponse.toolsUsed)
AddToolUse(tracker, agent, toolsUsed) ==
    IF Len(toolsUsed) > 0 THEN tracker \cup {agent} ELSE tracker

-----------------------------------------------------------------------------
(* Handoff input filters *)

FilterNames == {"own_filter", "run_filter", "bad_filter"}

HandoffInputData(inputHistory, preHandoffItems, newItems) ==
    [valid |-> TRUE, inputHistory |-> inputHistory, preHandoffItems |-> preHandoffItems,
     newItems |-> newItems]

\* a filter that drops the tool calls and their outputs
RemoveTools(items) ==
    LET keep(item) == item.kind \notin {"tool_call_item", "tool_call_output_item"}
    IN  SelectSeq(items, keep)

\* the filter functions of the configuration: each returns a rewritten tuple of its own,
\* but for "bad_filter", which returns something that is not a HandoffInputData
ApplyFilter(name, data) ==
    CASE name = "own_filter" ->
            HandoffInputData(Append(data.inputHistory, "own"),
                             RemoveTools(data.preHandoffItems), data.newItems)
      [] name = "run_filter" ->
            HandoffInputData(Append(data.inputHistory, "run"),
                             data.preHandoffItems, RemoveTools(data.newItems))
      [] OTHER -> [data EXCEPT !.valid = FALSE]

\* handoff.inputFilter: only the handoff of the starting agent has a filter of its own
HandoffFilter(agent) == IF agent = StartingAgent THEN inputFilter ELSE Null

\* the run-wide filter taking precedence over the handoff's own
InputFilterOf_RunWideFirst(agent) ==
    IF handoffInputFilter # Null THEN handoffInputFilter ELSE HandoffFilter(agent)

\* handoff.inputFilter || runConfig.handoffInputFilter
InputFilterOf(agent) ==
    IF HandoffFilter(agent) # Null THEN HandoffFilter(agent) ELSE handoffInputFilter

\* TurnResult carrying the items of the turn only
TurnResult_NewItemsOnly(ok, errKind, original, preStepItems, newStepItems, nextStep) ==
    [ok |-> ok, errKind |-> errKind, originalInput |-> original,
     preStepItems |-> <<>>, newStepItems |-> newStepItems, nextStep |-> nextStep]

TurnResult(ok, errKind, original, preStepItems, newStepItems, nextStep) ==
    [ok |-> ok, errKind |-> errKind, originalInput |-> original,
     preStepItems |-> preStepItems, newStepItems |-> newStepItems, nextStep |-> nextStep]

\* the end of RunImpl.executeHandoffs: the input filter and the SingleStepResult
FilterHandoffInput(agent, original, preStepItems, result) ==
    LET filter == InputFilterOf(agent)
        filtered == ApplyFilter(filter, HandoffInputData(original, preStepItems,
                                                         result.newStepItems))
    IN  IF filter = Null
        THEN TurnResult(TRUE, "none", original, preStepItems, result.newStepItems,
                        result.nextStep)
        ELSE IF ~filtered.valid
        THEN TurnResult(FALSE, "UserError", original, preStepItems, <<>>, result.nextStep)
        ELSE TurnResult(TRUE, "none", filtered.inputHistory, filtered.preHandoffItems,
                        filtered.newItems, result.nextStep)

\* Runner._getSingleStepResultFromResponse on the run's input and items
SingleStepResult(agent, response, original, preStepItems) ==
    LET result == GetSingleStepResult(agent, response)
    IN  IF result.ok /\ result.nextStep.type = "handoff"
        THEN FilterHandoffInput(agent, original, preStepItems, result)
        ELSE TurnResult(result.ok, result.errKind, original, preStepItems,
                        result.newStepItems, result.nextStep)

\* the hooks and the filter called by RunImpl.executeHandoffs
HandoffCalls(agent, response, original, preStepItems) ==
    LET result == GetSingleStepResult(agent, response)
        filter == InputFilterOf(agent)
    IN  IF result.ok /\ result.nextStep.type = "handoff"
        THEN HandoffHookCalls(agent, result.nextStep.newAgent)
                 \o (IF filter = Null THEN <<>>
                     ELSE <<[call |-> "inputFilter", owner |-> filter, agent |-> agent,
                             other |-> result.nextStep.newAgent,
                             input |-> [history |-> original, items |-> preStepItems,
                                        newItems |-> result.newStepItems]]>>)
        ELSE <<>>

\* runFinalOutputHooks run on every turn that was decided
ExecuteFinalOutputCalls_EveryTurn(agent, turnResult) ==
    IF turnResult.ok
    THEN <<Call("onAgentEnd", RunWide, agent, turnResult.nextStep.output),
           Call("onEnd", agent, agent, turnResult.nextStep.output)>>
    ELSE <<>>

\* RunImpl.executeFinalOutput: Promise.all([hooks.onAgentEnd(contextWrapper, agent,
\* finalOutput), agent.hooks.onEnd(contextWrapper, agent, finalOutput)]), called by the
\* three branches of executeToolsAndSideEffects that return a final output
ExecuteFinalOutputCalls(agent, turnResult) ==
    IF turnResult.ok /\ turnResult.nextStep.type = "final_output"
    THEN <<Call("onAgentEnd", RunWide, agent, turnResult.nextStep.output),
           Call("onEnd", agent, agent, turnResult.nextStep.output)>>
    ELSE <<>>

\* the tracker after Runner._getSingleStepResultFromResponse
TrackerAfter(tracker, agent, response) ==
    LET processedResponse == ProcessModelResponse(agent, response)
    IN  IF processedResponse.ok THEN AddToolUse(tracker, agent, processedResponse.toolsUsed)
        ELSE tracker

-----------------------------------------------------------------------------
(* Guardrail batches *)

Indices(list) == 1..Len(list)

Tripped(list) == {i \in Indices(list) : list[i] = "trip"}

Min(S) == CHOOSE x \in S : \A y \in S : x <= y
Max(S) == CHOOSE x \in S : \A y \in S : y <= x

RECURSIVE SelectIndices(_, _)
SelectIndices(n, S) ==
    IF n = 0 THEN <<>>
    ELSE IF n \in S THEN Append(SelectIndices(n - 1, S), n) ELSE SelectIndices(n - 1, S)

\* successfulResults: the fulfilled, not tripped results met before any tripped one
SuccessfulResults(list) ==
    SelectIndices(Len(list),
                  {i \in Indices(list) : list[i] = "pass" /\ \A j \in Tripped(list) : i < j})

\* Runner._runInputGuardrails, the loop over the settled results
InputTriggeredResult(list) == IF Tripped(list) = {} THEN 0 ELSE Max(Tripped(list))

\* OutputTriggeredResult keeping the last tripped result instead of the first
OutputTriggeredResult_Last(list) == IF Tripped(list) = {} THEN 0 ELSE Max(Tripped(list))

\* Runner._runOutputGuardrails, the loop over the settled results
OutputTriggeredResult(list) == IF Tripped(list) = {} THEN 0 ELSE Min(Tripped(list))

AllRunning(list) == [i \in Indices(list) |-> "running"]
NoTasks == <<>>

-----------------------------------------------------------------------------
(* Stream events *)

NoItem == Item(Null, Null, Null, Null)

StreamEvent(type, name, item) == [type |-> type, name |-> name, item |-> item]

QUEUE_COMPLETE_SENTINEL == StreamEvent("QUEUE_COMPLETE_SENTINEL", Null, NoItem)

RawResponsesStreamEvent(eventType) == StreamEvent("raw_response_event", eventType, NoItem)
AgentTextDeltaStreamEvent(delta) == StreamEvent("agent_text_delta_stream_event", delta, NoItem)
RunItemStreamEvent(name, item) == StreamEvent("run_item_stream_event", name, item)

\* the provider's stream of one response: a text delta per message, then the completed event
RECURSIVE ProviderDeltas(_)
ProviderDeltas(output) ==
    IF output = <<>> THEN <<>>
    ELSE (IF Head(output).type = "message" /\ Head(output).text \notin {Null, NoContent}
          THEN <<Head(output).text>> ELSE <<>>)
             \o ProviderDeltas(Tail(output))

\* what the loop over the provider's events puts on the queue
RECURSIVE DeltaEvents(_)
DeltaEvents(deltas) ==
    IF deltas = <<>> THEN <<>>
    ELSE <<RawResponsesStreamEvent("response.output_text.delta"),
           AgentTextDeltaStreamEvent(Head(deltas))>> \o DeltaEvents(Tail(deltas))

StreamedEvents(response, completed) ==
    DeltaEvents(ProviderDeltas(response.output))
        \o (IF completed THEN <<RawResponsesStreamEvent("response.completed")>> ELSE <<>>)

ItemEventName(item) ==
    CASE item.kind = "message_output_item" -> "message_output_created"
      [] item.kind = "handoff_call_item" -> "handoff_requested"
      [] item.kind = "handoff_output_item" -> "handoff_occured"
      [] item.kind = "tool_call_item" -> "tool_called"
      [] item.kind = "tool_call_output_item" -> "tool_output"
      [] item.kind = "reasoning_item" -> "reasoning_item_created"
      [] OTHER -> Null

\* StreamStepResultToQueue publishing the last item of the step first
RECURSIVE StreamStepResultToQueue_LastFirst(_)
StreamStepResultToQueue_LastFirst(items) ==
    IF items = <<>> THEN <<>>
    ELSE StreamStepResultToQueue_LastFirst(Tail(items))
             \o (IF ItemEventName(Head(items)) = Null THEN <<>>
                 ELSE <<RunItemStreamEvent(ItemEventName(Head(items)), Head(items))>>)

\* RunImpl.streamStepResultToQueue
RECURSIVE StreamStepResultToQueue(_)
StreamStepResultToQueue(items) ==
    IF items = <<>> THEN <<>>
    ELSE (IF ItemEventName(Head(items)) = Null THEN <<>>
          ELSE <<RunItemStreamEvent(ItemEventName(Head(items)), Head(items))>>)
             \o StreamStepResultToQueue(Tail(items))

IgSentinel == 0

-----------------------------------------------------------------------------
(* Agent: the constructor and clone. A field value is written as a string; Undefined is
   the value of a property that is absent or undefined *)

AgentFields ==
    {"name", "instructions", "handoff_description", "handoffs", "model", "model_settings",
     "tools", "mcp_servers", "input_guardrails", "output_guardrails", "output_type",
     "hooks", "tool_use_behavior", "reset_tool_choice"}

DEFAULT_MODEL == "gpt-4o"

\* what the constructor stores for a property that is undefined
FieldDefault(field) ==
    CASE field = "model" -> DEFAULT_MODEL
      [] field = "model_settings" -> "new ModelSettings()"
      [] field \in {"tools", "mcp_servers", "input_guardrails", "output_guardrails"} -> "[]"
      [] field = "tool_use_behavior" -> "run_llm_again"
      [] field = "reset_tool_choice" -> "true"
      [] OTHER -> Undefined

\* new Agent(props)
AgentConstructor(props) ==
    [field \in AgentFields |->
        IF props[field] = Undefined THEN FieldDefault(field) ELSE props[field]]

\* { ...this, ...overrides }: an own property of overrides wins, undefined included
Spread(this, overrides) ==
    [field \in AgentFields |->
        IF field \in DOMAIN overrides THEN overrides[field] ELSE this[field]]

\* clone storing the overrides without the constructor
AgentClone_OverridesOnly(this, overrides) ==
    [this |-> this,
     returned |-> [field \in AgentFields |->
                      IF field \in DOMAIN overrides THEN overrides[field]
                      ELSE FieldDefault(field)]]

\* Agent.clone: the agent it is called on afterwards, and the agent it returns
AgentClone(this, overrides) ==
    [this |-> this, returned |-> AgentConstructor(Spread(this, overrides))]

NoProps == [field \in AgentFields |-> Undefined]
NoOverrides == [field \in {} |-> Undefined]

\* the properties agents are constructed with
VariedFields == {"instructions", "handoffs", "model", "tools", "reset_tool_choice"}

AgentPropsGiven ==
    {[field \in AgentFields |->
         IF field = "name" THEN "Assistant"
         ELSE IF field \in given THEN "given_" \o field ELSE Undefined] :
        given \in SUBSET VariedFields}

\* the overrides clone is called with: up to MaxOverrides properties, each a new value
\* or undefined
MaxOverrides == 2

OverridableFields == VariedFields \cup {"name"}

OverridesGiven ==
    UNION {[keys -> {"new", Undefined}] :
              keys \in {k \in SUBSET OverridableFields : Cardinality(k) <= MaxOverrides}}

CloneIdle ==
    /\ clonePc = "idle"
    /\ thisAgent = NoProps
    /\ agentBefore = NoProps
    /\ cloneOverrides = NoOverrides
    /\ clonedAgent = NoProps

cloneVars == <<clonePc, thisAgent, agentBefore, cloneOverrides, clonedAgent>>

-----------------------------------------------------------------------------
(* Spans and the current span: SpanImpl.start / finish over the context variable
   current_span, whose store is one Map shared by every continuation of the run *)

MaxScopeTurns == 2
MaxTasks == 2

AgentSpanId(turn) == "agent_" \o ToString(turn)
OpSpanId(turn, i) == "op_" \o ToString(turn) \o "_" \o ToString(i)

SpanIds ==
    {AgentSpanId(t) : t \in 1..MaxScopeTurns}
        \cup {OpSpanId(t, i) : t \in 1..MaxScopeTurns, i \in 1..MaxTasks}

\* _prevSpanToken = null
NoToken == "no token"

\* a span nobody created yet; ends counts the onSpanEnd reports made to the processor
NewSpan == [state |-> "new", token |-> NoToken, ends |-> 0, finishCalls |-> 0]

\* the spans and the context variable: what start and finish read and write
Scope(all, current) == [spans |-> all, current |-> current]

\* ContextVar.set: the token holds the value held before; SpanImpl.start(markAsCurrent)
SpanStart(scope, id, markAsCurrent) ==
    IF scope.spans[id].state # "new" THEN scope
    ELSE Scope([scope.spans EXCEPT ![id].state = "started",
                                   ![id].token = IF markAsCurrent THEN scope.current
                                                 ELSE NoToken],
               IF markAsCurrent THEN id ELSE scope.current)

\* SpanImpl.finish reporting the end on every call
SpanFinish_ReportsEveryCall(scope, id, resetCurrent) ==
    Scope([scope.spans EXCEPT ![id].state = "finished",
                              ![id].ends = @ + 1,
                              ![id].finishCalls = @ + 1,
                              ![id].token = NoToken],
          IF resetCurrent /\ scope.spans[id].token # NoToken
          THEN scope.spans[id].token ELSE scope.current)

\* SpanImpl.finish(resetCurrent); ContextVar.reset stores the value of the token, which
\* deletes the entry when that value is undefined
SpanFinish(scope, id, resetCurrent) ==
    IF scope.spans[id].state = "finished"
    THEN Scope([scope.spans EXCEPT ![id].finishCalls = @ + 1], scope.current)
    ELSE Scope([scope.spans EXCEPT ![id].state = "finished",
                                   ![id].ends = @ + 1,
                                   ![id].finishCalls = @ + 1,
                                   ![id].token = IF resetCurrent THEN NoToken ELSE @],
               IF resetCurrent /\ scope.spans[id].token # NoToken
               THEN scope.spans[id].token ELSE scope.current)

\* tasks = toolRuns.map(runSingleTool), guardrails.map(runSingle...Guardrail): every
\* call runs up to its first await, so the spans are started one after another
RECURSIVE StartAll(_, _)
StartAll(scope, ids) ==
    IF ids = <<>> THEN scope
    ELSE StartAll(SpanStart(scope, Head(ids), TRUE), Tail(ids))

NoOp == [kind |-> "none", outcome |-> "none", turn |-> 0]

ScopeIdle ==
    /\ scopePc = "idle"
    /\ scopeTurn = 0
    /\ runnerSpan = Null
    /\ currentSpan = Null
    /\ spans = [id \in SpanIds |-> NewSpan]
    /\ scopeOps = [id \in SpanIds |-> NoOp]

scopeVars == <<scopePc, scopeTurn, runnerSpan, currentSpan, spans, scopeOps>>

-----------------------------------------------------------------------------
(* ComputerAction: one computer call executed on the computer of the tool. A field of an
   action that the call does not carry holds Undefined, a path that it does not carry is
   the empty list. *)

\* the action types that the schema of RunImpl.isResponseComputerToolCall accepts
ActionTypes == {"click", "double_click", "drag", "keypress", "move", "screenshot",
                "scroll", "type", "wait"}

Has(type, types, value) == IF type \in types THEN value ELSE Undefined

Action(type, x, y) ==
    [type |-> type,
     x |-> Has(type, {"click", "double_click", "move", "scroll"}, x),
     y |-> Has(type, {"click", "double_click", "move", "scroll"}, y),
     button |-> Has(type, {"click"}, "left"),
     path |-> IF type = "drag" THEN <<[x |-> x, y |-> y], [x |-> y, y |-> x]>> ELSE <<>>,
     keys |-> Has(type, {"keypress"}, "keys"),
     scroll_x |-> Has(type, {"scroll"}, "scroll_x"),
     scroll_y |-> Has(type, {"scroll"}, "scroll_y"),
     text |-> Has(type, {"type"}, "text")]

ResponseComputerToolCall(call_id, action) ==
    [type |-> "computer_call", call_id |-> call_id, action |-> action]

Coordinates == {"10", "20"}

ComputerToolCallsGiven ==
    {ResponseComputerToolCall(call_id, Action(type, x, y)) :
        call_id \in {"call_1", "call_2"}, type \in ActionTypes,
        x \in Coordinates, y \in {"30"}}

IsActionClick(action) == action.type = "click"
IsActionDoubleClick(action) == action.type = "doubleClick"
IsActionDrag(action) == action.type = "drag"
IsActionKeypress(action) == action.type = "keypress"
IsActionMove(action) == action.type = "move"
IsActionScreenshot(action) == action.type = "screenshot"
IsActionScroll(action) == action.type = "scroll"
IsActionType(action) == action.type = "type"
IsActionWait(action) == action.type = "wait"

\* a method of the computer called with arguments
ComputerCall(method, args) == [method |-> method, args |-> args]

\* action.path.map(p => [p.x, p.y])
PathPairs(path) == [k \in 1..Len(path) |-> <<path[k].x, path[k].y>>]

\* the calls of the if-chain shared by getScreenshotSync and getScreenshotAsync
ActionCalls(action) ==
    IF IsActionClick(action)
    THEN <<ComputerCall("click", <<action.x, action.y, action.button>>)>>
    ELSE IF IsActionDoubleClick(action)
    THEN <<ComputerCall("doubleClick", <<action.x, action.y>>)>>
    ELSE IF IsActionDrag(action)
    THEN <<ComputerCall("drag", <<PathPairs(action.path)>>)>>
    ELSE IF IsActionKeypress(action)
    THEN <<ComputerCall("keypress", <<action.keys>>)>>
    ELSE IF IsActionMove(action)
    THEN <<ComputerCall("move", <<action.x, action.y>>)>>
    ELSE IF IsActionScreenshot(action)
    THEN <<ComputerCall("screenshot", <<>>)>>
    ELSE IF IsActionScroll(action)
    THEN <<ComputerCall("scroll", <<action.x, action.y, action.scroll_x, action.scroll_y>>)>>
    ELSE IF IsActionType(action)
    THEN <<ComputerCall("type", <<action.text>>)>>
    ELSE IF IsActionWait(action)
    THEN <<ComputerCall("wait", <<>>)>>
    ELSE <<>>

\* the calls that getScreenshotSync makes on a synchronous computer
GetScreenshotSync(call) == ActionCalls(call.action) \o <<ComputerCall("screenshot", <<>>)>>

\* the calls that getScreenshotAsync makes on an asynchronous computer, one per await
GetScreenshotAsync(call) == ActionCalls(call.action) \o <<ComputerCall("screenshot", <<>>)>>

\* the image that the k-th call made on the computer returned
Screenshot(k) == [prefix |-> "data:image/png;base64,", call |-> k]

NoScreenshot == [prefix |-> "none", call |-> 0]

ComputerCallOutput(call_id, imageUrl) ==
    [type |-> "computer_call_output", call_id |-> call_id,
     output |-> [type |-> "computer_screenshot", image_url |-> imageUrl]]

NoCallOutput == ComputerCallOutput("none", NoScreenshot)

NoToolCall == ResponseComputerToolCall("none", Action("none", Undefined, Undefined))

ActionIdle ==
    /\ actionPc = "idle"
    /\ toolCall = NoToolCall
    /\ computerIsAsync = FALSE
    /\ computerCalls = <<>>
    /\ actionOutput = NoCallOutput

actionVars == <<actionPc, toolCall, computerIsAsync, computerCalls, actionOutput>>

-----------------------------------------------------------------------------
(* BatchTraceProcessor. A trace or span is written as the number of its arrival. *)

MaxItems == 4
MaxQueueSize == 3
MaxBatchSize == 2

\* Math.floor(maxQueueSize * exportTriggerRatio) with the default ratio 0.7
ExportTriggerSize(queueSize) == (queueSize * 7) \div 10

ExportCall(items, force) == [items |-> items, force |-> force]

\* exportBatches with a batch of any size when it is not forced either
ExportBatches_Unlimited(items, force, batchSize) ==
    IF items = <<>> THEN <<>> ELSE <<ExportCall(items, force)>>

\* BatchTraceProcessor.exportBatches: the calls of exporter.export it makes on a queue
RECURSIVE ExportBatches(_, _, _)
ExportBatches(items, force, batchSize) ==
    IF items = <<>> THEN <<>>
    ELSE LET n == IF force \/ Len(items) < batchSize THEN Len(items) ELSE batchSize
         IN  <<ExportCall(SubSeq(items, 1, n), force)>>
                 \o ExportBatches(SubSeq(items, n + 1, Len(items)), force, batchSize)

BatchIdle ==
    /\ processorPc = "idle"
    /\ maxQueueSize = 0
    /\ maxBatchSize = 0
    /\ processorQueue = <<>>
    /\ isShutdown = FALSE
    /\ arrived = 0
    /\ accepted = <<>>
    /\ exportedBatches = <<>>
    /\ lastCall = "none"

batchVars == <<processorPc, maxQueueSize, maxBatchSize, processorQueue, isShutdown, arrived,
               accepted, exportedBatches, lastCall>>

\* the state outside the run loop and the step
LibIdle == CloneIdle /\ ScopeIdle /\ ActionIdle /\ BatchIdle

libVars == <<cloneVars, scopeVars, actionVars, batchVars>>

-----------------------------------------------------------------------------
(* Initial state *)

NoFirst ==
    [valid |-> FALSE, error |-> NoError, finalOutput |-> Null, lastAgent |-> Null,
     generatedItems |-> <<>>, decisions |-> <<>>, responses |-> <<>>,
     reachedOutput |-> FALSE, outputGuardrails |-> <<>>]

\* the input of the run, a list of input items
StartingInput == <<"hello">>

StartOfRunOf(agent, m) ==
    /\ mode = m
    /\ pc = IF m = "buffered" THEN "loop" ELSE "start"
    /\ currentTurn = 0
    /\ currentAgent = agent
    /\ generatedItems = <<>>
    /\ rawResponses = <<>>
    /\ newResponse = NoResponse
    /\ usage = ZeroUsage
    /\ modelCalls = 0
    /\ decisions = <<>>
    /\ igTask = NoTasks
    /\ igYield = <<>>
    /\ igQueue = <<>>
    /\ inputGuardrailResults = <<>>
    /\ outputGuardrails = <<>>
    /\ ogTask = NoTasks
    /\ outputGuardrailResults = <<>>
    /\ turnOutput = Null
    /\ finalOutput = Null
    /\ error = NoError
    /\ returned = FALSE
    /\ isComplete = FALSE
    /\ eventQueue = <<>>
    /\ consumed = 0
    /\ originalInput = StartingInput
    /\ shouldRunAgentStartHooks = TRUE
    /\ toolUseTracker = {}
    /\ callLog = <<>>

StartOfRun(m) == StartOfRunOf(StartingAgent, m)

\* no step is being followed call by call
NoStepResult == StepFailed("pending")

StepIdle ==
    /\ stepPc = "idle"
    /\ stepAgent = Null
    /\ stepResponse = <<>>
    /\ stepProcessed = EmptyProcessed
    /\ toolTask = <<>>
    /\ toolValues = <<>>
    /\ toolOrder = <<>>
    /\ computerLog = <<>>
    /\ toolLog = <<>>
    /\ handoffsInvoked = <<>>
    /\ stepResult = NoStepResult

Init ==
    /\ \E m \in Modes : StartOfRun(m)
    /\ LibIdle
    /\ maxTurns \in 0..MaxTurnsBound
    /\ inputGuardrails \in GuardrailLists
    /\ first = NoFirst
    /\ inputFilter = Null
    /\ handoffInputFilter = Null
    /\ StepIdle

cfgVars == <<mode, maxTurns, inputGuardrails, first, inputFilter, handoffInputFilter>>
obsVars == <<originalInput, shouldRunAgentStartHooks, toolUseTracker, callLog>>
igVars == <<igTask, igYield, igQueue, inputGuardrailResults>>
ogVars == <<outputGuardrails, ogTask, outputGuardrailResults>>
turnVars == <<currentAgent, generatedItems, rawResponses, decisions, turnOutput>>
modelVars == <<newResponse, usage, modelCalls>>
resultVars == <<finalOutput, error, returned, isComplete>>
streamVars == <<eventQueue, consumed>>
stepEngineVars == <<stepPc, stepAgent, stepResponse, stepProcessed, toolTask,
                    toolValues, toolOrder, computerLog, toolLog, handoffsInvoked, stepResult>>
stepVars == <<stepEngineVars, libVars>>

-----------------------------------------------------------------------------
(* Guardrail promises *)

\* RunImpl.runSingleInputGuardrail settles; in streaming mode _yieldResults records it
RunSingleInputGuardrail(i) ==
    /\ pc = "await_input_guardrails"
    /\ i \in DOMAIN igTask
    /\ igTask[i] = "running"
    /\ igTask' = [igTask EXCEPT ![i] = "settled"]
    /\ igYield' = IF mode = "streamed" THEN Append(igYield, i) ELSE igYield
    /\ callLog' = IF mode = "streamed"
                  THEN Append(callLog, Call("input_guardrail_settled",
                                            GuardrailOwner(currentAgent, i), currentAgent,
                                            GuardrailName(i)))
                  ELSE callLog
    /\ UNCHANGED <<cfgVars, stepVars, originalInput, shouldRunAgentStartHooks, toolUseTracker,
                   igQueue, inputGuardrailResults, ogVars, turnVars, modelVars,
                   resultVars, streamVars, pc, currentTurn>>

\* RunImpl.runSingleOutputGuardrail settles
RunSingleOutputGuardrail(i) ==
    /\ pc = "await_output_guardrails"
    /\ i \in DOMAIN ogTask
    /\ ogTask[i] = "running"
    /\ ogTask' = [ogTask EXCEPT ![i] = "settled"]
    /\ UNCHANGED <<cfgVars, stepVars, obsVars, igVars, outputGuardrails, outputGuardrailResults, turnVars,
                   modelVars, resultVars, streamVars, pc, currentTurn>>

AllSettled(tasks) == \A i \in DOMAIN tasks : tasks[i] = "settled"

-----------------------------------------------------------------------------
(* Runner.run *)

\* Run_Loop with the budget test off by one (>= for >)
Run_Loop_OffByOne ==
    /\ mode = "buffered"
    /\ pc = "loop"
    /\ currentTurn' = currentTurn + 1
    /\ IF currentTurn' >= maxTurns
       THEN /\ error' = Err("MaxTurnsExceeded")
            /\ pc' = "done"
            /\ UNCHANGED igTask
       ELSE IF currentTurn' = 1 /\ Len(inputGuardrails) > 0
       THEN /\ igTask' = AllRunning(inputGuardrails)
            /\ pc' = "await_input_guardrails"
            /\ UNCHANGED error
       ELSE /\ pc' = "run_single_turn"
            /\ UNCHANGED <<error, igTask>>
    /\ callLog' = IF pc' = "await_input_guardrails"
                  THEN callLog \o InputGuardrailCalls(currentAgent, inputGuardrails)
                  ELSE callLog
    /\ UNCHANGED <<cfgVars, stepVars, originalInput, shouldRunAgentStartHooks, toolUseTracker, igYield, igQueue, inputGuardrailResults, ogVars, turnVars,
                   modelVars, finalOutput, returned, isComplete, streamVars>>

\* top of the loop: the turn budget, then on turn 1 the launch of the input guardrails
Run_Loop ==
    /\ mode = "buffered"
    /\ pc = "loop"
    /\ currentTurn' = currentTurn + 1
    /\ IF currentTurn' > maxTurns
       THEN /\ error' = Err("MaxTurnsExceeded")
            /\ pc' = "done"
            /\ UNCHANGED igTask
       ELSE IF currentTurn' = 1 /\ Len(inputGuardrails) > 0
       THEN /\ igTask' = AllRunning(inputGuardrails)
            /\ pc' = "await_input_guardrails"
            /\ UNCHANGED error
       ELSE /\ pc' = "run_single_turn"
            /\ UNCHANGED <<error, igTask>>
    /\ callLog' = IF pc' = "await_input_guardrails"
                  THEN callLog \o InputGuardrailCalls(currentAgent, inputGuardrails)
                  ELSE callLog
    /\ UNCHANGED <<cfgVars, stepVars, originalInput, shouldRunAgentStartHooks, toolUseTracker, igYield, igQueue, inputGuardrailResults, ogVars, turnVars,
                   modelVars, finalOutput, returned, isComplete, streamVars>>

\* Runner._runInputGuardrails after Promise.allSettled
Run_InputGuardrailsSettled ==
    /\ mode = "buffered"
    /\ pc = "await_input_guardrails"
    /\ AllSettled(igTask)
    /\ LET triggeredResult == InputTriggeredResult(inputGuardrails)
       IN  IF triggeredResult # 0
           THEN /\ error' = Tripwire("InputGuardrailTripwireTriggered", triggeredResult)
                /\ pc' = "done"
                /\ UNCHANGED inputGuardrailResults
           ELSE /\ inputGuardrailResults' = SuccessfulResults(inputGuardrails)
                /\ pc' = "run_single_turn"
                /\ UNCHANGED error
    /\ UNCHANGED <<cfgVars, stepVars, obsVars, igTask, igYield, igQueue, ogVars, turnVars, modelVars,
                   finalOutput, returned, isComplete, streamVars, currentTurn>>

\* Runner._runSingleTurn up to the model's answer: Runner._getNewResponse adds the
\* usage, and Runner._runSingleTurn adds it again
GetNewResponse ==
    /\ mode = "buffered"
    /\ pc = "run_single_turn"
    /\ modelCalls' = modelCalls + 1
    /\ \/ \E response \in ModelResponses(currentAgent) :
            /\ newResponse' = response
            /\ usage' = UsageAdd(UsageAdd(usage, response.usage), response.usage)
            /\ pc' = "step"
            /\ UNCHANGED error
       \/ /\ error' = Err("Error")
          /\ pc' = "done"
          /\ UNCHANGED <<newResponse, usage>>
    /\ callLog' = callLog
                      \o (IF shouldRunAgentStartHooks THEN AgentStartHookCalls(currentAgent)
                          ELSE <<>>)
                      \o <<ModelCall(currentAgent, toolUseTracker, originalInput,
                                     generatedItems)>>
    /\ UNCHANGED <<cfgVars, stepVars, originalInput, shouldRunAgentStartHooks, toolUseTracker,
                   igVars, ogVars, turnVars, finalOutput, returned, isComplete,
                   streamVars, currentTurn>>

\* the start hooks asked for again after every turn
ShouldRunAgentStartHooksAfter_EveryTurn(nextStep) == TRUE

\* shouldRunAgentStartHooks = false after the turn, true again after a handoff
ShouldRunAgentStartHooksAfter(nextStep) == nextStep.type = "handoff"

\* Runner._getSingleStepResultFromResponse, then the rest of the loop body
Run_Step ==
    /\ mode = "buffered"
    /\ pc = "step"
    /\ toolUseTracker' = TrackerAfter(toolUseTracker, currentAgent, newResponse)
    /\ LET turnResult == SingleStepResult(currentAgent, newResponse, originalInput,
                                          generatedItems)
           handoffCalls == HandoffCalls(currentAgent, newResponse, originalInput,
                                        generatedItems)
       IN  IF ~turnResult.ok
           THEN /\ error' = Err(turnResult.errKind)
                /\ pc' = "done"
                /\ callLog' = callLog \o handoffCalls
                /\ UNCHANGED <<turnVars, ogVars, finalOutput, returned, newResponse,
                               originalInput, shouldRunAgentStartHooks>>
           ELSE /\ rawResponses' = Append(rawResponses, newResponse.id)
                /\ originalInput' = turnResult.originalInput
                /\ generatedItems' = turnResult.preStepItems \o turnResult.newStepItems
                /\ decisions' = Append(decisions, turnResult.nextStep)
                /\ shouldRunAgentStartHooks' = ShouldRunAgentStartHooksAfter(turnResult.nextStep)
                /\ newResponse' = NoResponse
                /\ UNCHANGED <<error, outputGuardrailResults>>
                /\ IF turnResult.nextStep.type = "final_output"
                   THEN /\ turnOutput' = turnResult.nextStep.output
                        /\ \E guardrails \in GuardrailLists :
                              /\ outputGuardrails' = guardrails
                              /\ callLog' = callLog
                                    \o ExecuteFinalOutputCalls(currentAgent, turnResult)
                                    \o OutputGuardrailCalls(currentAgent, guardrails)
                              /\ IF Len(guardrails) = 0
                                 THEN /\ finalOutput' = turnResult.nextStep.output
                                      /\ returned' = TRUE
                                      /\ pc' = "done"
                                      /\ UNCHANGED ogTask
                                 ELSE /\ ogTask' = AllRunning(guardrails)
                                      /\ pc' = "await_output_guardrails"
                                      /\ UNCHANGED <<finalOutput, returned>>
                        /\ UNCHANGED currentAgent
                   ELSE /\ currentAgent' = IF turnResult.nextStep.type = "handoff"
                                           THEN turnResult.nextStep.newAgent
                                           ELSE currentAgent
                        /\ pc' = "loop"
                        /\ callLog' = callLog
                                          \o ExecuteFinalOutputCalls(currentAgent, turnResult)
                                          \o handoffCalls
                        /\ UNCHANGED <<turnOutput, outputGuardrails, ogTask, finalOutput,
                                       returned>>
    /\ UNCHANGED <<cfgVars, stepVars, igVars, usage, modelCalls, isComplete, streamVars, currentTurn>>

\* Runner._runOutputGuardrails after Promise.allSettled, then the return of Runner.run
Run_OutputGuardrailsSettled ==
    /\ mode = "buffered"
    /\ pc = "await_output_guardrails"
    /\ AllSettled(ogTask)
    /\ LET triggeredResult == OutputTriggeredResult(outputGuardrails)
       IN  IF triggeredResult # 0
           THEN /\ error' = Tripwire("OutputGuardrailTripwireTriggered", triggeredResult)
                /\ UNCHANGED <<outputGuardrailResults, finalOutput, returned>>
           ELSE /\ outputGuardrailResults' = SuccessfulResults(outputGuardrails)
                /\ finalOutput' = turnOutput
                /\ returned' = TRUE
                /\ UNCHANGED error
    /\ pc' = "done"
    /\ UNCHANGED <<cfgVars, stepVars, obsVars, igVars, outputGuardrails, ogTask, turnVars, modelVars,
                   isComplete, streamVars, currentTurn>>

-----------------------------------------------------------------------------
(* RunResultStreaming *)

\* RunResultStreaming.setError records the error on the result object
SetError(e) == error' = e

PutNowait(queue, entry) == Append(queue, entry)

\* the consumer of the event queue takes the next entry, until it has taken the sentinel
StreamEvents ==
    /\ mode = "streamed"
    /\ consumed < Len(eventQueue)
    /\ IF consumed = 0 THEN TRUE ELSE eventQueue[consumed] # QUEUE_COMPLETE_SENTINEL
    /\ consumed' = consumed + 1
    /\ UNCHANGED <<cfgVars, stepVars, obsVars, igVars, ogVars, turnVars, modelVars, resultVars, eventQueue,
                   pc, currentTurn>>

-----------------------------------------------------------------------------
(* Runner.runStreamed *)

\* the inputs of a streamed run that repeats a finished buffered run are those of that run
ResponsesToStream ==
    IF first.valid /\ modelCalls < Len(first.responses)
    THEN {ResponseById(first.responses[modelCalls + 1])}
    ELSE ModelResponses(currentAgent)

StreamCompletions == IF first.valid THEN {TRUE} ELSE BOOLEAN

OutputGuardrailLists ==
    IF first.valid /\ first.reachedOutput THEN {first.outputGuardrails} ELSE GuardrailLists

\* Runner._runStreamedImpl up to its first await: the input guardrails are launched
RunStreamedImpl_Start ==
    /\ mode = "streamed"
    /\ pc = "start"
    /\ IF Len(inputGuardrails) = 0
       THEN /\ igQueue' = PutNowait(igQueue, IgSentinel)
            /\ pc' = "loop"
            /\ UNCHANGED igTask
       ELSE /\ igTask' = AllRunning(inputGuardrails)
            /\ pc' = "await_input_guardrails"
            /\ UNCHANGED igQueue
    /\ callLog' = callLog \o InputGuardrailCalls(currentAgent, inputGuardrails)
    /\ UNCHANGED <<cfgVars, stepVars, originalInput, shouldRunAgentStartHooks, toolUseTracker, igYield, inputGuardrailResults, ogVars, turnVars, modelVars,
                   resultVars, streamVars, currentTurn>>

\* Runner._runInputGuardrailsWithQueue: one iteration of the loop over _yieldResults,
\* with the finally block and the handler of Runner._runStreamedImpl when it ends the run
InputGuardrailsWithQueue_Next ==
    /\ mode = "streamed"
    /\ pc = "await_input_guardrails"
    /\ igYield # <<>>
    /\ LET i == Head(igYield)
           outcome == inputGuardrails[i]
       IN  CASE outcome = "throw" ->
                  /\ igQueue' = PutNowait(igQueue, IgSentinel)
                  /\ SetError(Err("Error"))
                  /\ eventQueue' = PutNowait(eventQueue, QUEUE_COMPLETE_SENTINEL)
                  /\ igYield' = <<>>
                  /\ pc' = "done"
                  /\ UNCHANGED inputGuardrailResults
             [] outcome = "trip" ->
                  /\ igQueue' = PutNowait(PutNowait(igQueue, i), IgSentinel)
                  /\ inputGuardrailResults' = Append(inputGuardrailResults, i)
                  /\ SetError(Tripwire("InputGuardrailTripwireTriggered", i))
                  /\ eventQueue' = PutNowait(eventQueue, QUEUE_COMPLETE_SENTINEL)
                  /\ igYield' = <<>>
                  /\ pc' = "done"
             [] OTHER ->
                  /\ inputGuardrailResults' = Append(inputGuardrailResults, i)
                  /\ igYield' = Tail(igYield)
                  /\ IF AllSettled(igTask) /\ Tail(igYield) = <<>>
                     THEN /\ igQueue' = PutNowait(PutNowait(igQueue, i), IgSentinel)
                          /\ pc' = "loop"
                     ELSE /\ igQueue' = PutNowait(igQueue, i)
                          /\ pc' = "await_input_guardrails"
                  /\ UNCHANGED <<error, eventQueue>>
    /\ UNCHANGED <<cfgVars, stepVars, obsVars, igTask, ogVars, turnVars, modelVars, finalOutput, returned,
                   isComplete, consumed, currentTurn>>

\* RunStreamedImpl_Loop with the sentinel forgotten on the MaxTurnsExceeded exit
RunStreamedImpl_Loop_NoSentinel ==
    /\ mode = "streamed"
    /\ pc = "loop"
    /\ IF isComplete
       THEN /\ pc' = "done"
            /\ UNCHANGED <<currentTurn, error>>
       ELSE /\ currentTurn' = currentTurn + 1
            /\ IF currentTurn' > maxTurns
               THEN /\ SetError(Err("MaxTurnsExceeded"))
                    /\ pc' = "done"
               ELSE /\ pc' = "run_single_turn"
                    /\ UNCHANGED error
    /\ UNCHANGED <<cfgVars, stepVars, obsVars, igVars, ogVars, turnVars, modelVars, finalOutput, returned,
                   isComplete, eventQueue, consumed>>

\* top of the agent loop of Runner._runStreamedImpl
RunStreamedImpl_Loop ==
    /\ mode = "streamed"
    /\ pc = "loop"
    /\ IF isComplete
       THEN /\ pc' = "done"
            /\ UNCHANGED <<currentTurn, error, eventQueue>>
       ELSE /\ currentTurn' = currentTurn + 1
            /\ IF currentTurn' > maxTurns
               THEN /\ SetError(Err("MaxTurnsExceeded"))
                    /\ eventQueue' = PutNowait(eventQueue, QUEUE_COMPLETE_SENTINEL)
                    /\ pc' = "done"
               ELSE /\ pc' = "run_single_turn"
                    /\ UNCHANGED <<error, eventQueue>>
    /\ UNCHANGED <<cfgVars, stepVars, obsVars, igVars, ogVars, turnVars, modelVars, finalOutput, returned,
                   isComplete, consumed>>

\* StreamResponse taking the response of a stream that ended without the completed event
\* from the events seen so far
StreamResponse_NoFinalResponseCheck ==
    /\ mode = "streamed"
    /\ pc = "run_single_turn"
    /\ modelCalls' = modelCalls + 1
    /\ \E response \in ResponsesToStream, completed \in StreamCompletions :
          /\ newResponse' = [response EXCEPT !.usage.requests = 1]
          /\ usage' = UsageAdd(usage, [response.usage EXCEPT !.requests = 1])
          /\ eventQueue' = eventQueue \o StreamedEvents(response, completed)
          /\ pc' = "step"
    /\ callLog' = callLog
                      \o (IF shouldRunAgentStartHooks THEN AgentStartHookCalls(currentAgent)
                          ELSE <<>>)
                      \o <<ModelCall(currentAgent, toolUseTracker, originalInput,
                                     generatedItems)>>
    /\ UNCHANGED <<cfgVars, stepVars, originalInput, shouldRunAgentStartHooks, toolUseTracker,
                   igVars, ogVars, turnVars, finalOutput, returned,
                   consumed, currentTurn, error, isComplete>>

\* Runner._runSingleTurnStreamed up to the end of the provider's stream
StreamResponse ==
    /\ mode = "streamed"
    /\ pc = "run_single_turn"
    /\ modelCalls' = modelCalls + 1
    /\ \/ \E response \in ResponsesToStream, completed \in StreamCompletions :
            /\ IF completed
               THEN /\ newResponse' = [response EXCEPT !.usage.requests = 1]
                    /\ usage' = UsageAdd(usage, [response.usage EXCEPT !.requests = 1])
                    /\ eventQueue' = eventQueue \o StreamedEvents(response, TRUE)
                    /\ pc' = "step"
                    /\ UNCHANGED <<error, isComplete>>
               ELSE /\ SetError(Err("ModelBehaviorError"))
                    /\ isComplete' = TRUE
                    /\ eventQueue' = PutNowait(eventQueue \o StreamedEvents(response, FALSE),
                                               QUEUE_COMPLETE_SENTINEL)
                    /\ pc' = "done"
                    /\ UNCHANGED <<newResponse, usage>>
       \/ /\ ~first.valid
          /\ SetError(Err("ModelBehaviorError"))
          /\ isComplete' = TRUE
          /\ eventQueue' = PutNowait(eventQueue, QUEUE_COMPLETE_SENTINEL)
          /\ pc' = "done"
          /\ UNCHANGED <<newResponse, usage>>
    /\ callLog' = callLog
                      \o (IF shouldRunAgentStartHooks THEN AgentStartHookCalls(currentAgent)
                          ELSE <<>>)
                      \o <<ModelCall(currentAgent, toolUseTracker, originalInput,
                                     generatedItems)>>
    /\ UNCHANGED <<cfgVars, stepVars, originalInput, shouldRunAgentStartHooks, toolUseTracker,
                   igVars, ogVars, turnVars, finalOutput, returned, consumed,
                   currentTurn>>

\* the rest of Runner._runSingleTurnStreamed, then the rest of the loop body
RunStreamedImpl_Step ==
    /\ mode = "streamed"
    /\ pc = "step"
    /\ toolUseTracker' = TrackerAfter(toolUseTracker, currentAgent, newResponse)
    /\ LET turnResult == SingleStepResult(currentAgent, newResponse, originalInput,
                                          generatedItems)
           handoffCalls == HandoffCalls(currentAgent, newResponse, originalInput,
                                        generatedItems)
           published == eventQueue \o StreamStepResultToQueue(turnResult.newStepItems)
       IN  IF ~turnResult.ok
           THEN /\ SetError(Err(turnResult.errKind))
                /\ isComplete' = TRUE
                /\ eventQueue' = PutNowait(eventQueue, QUEUE_COMPLETE_SENTINEL)
                /\ pc' = "done"
                /\ callLog' = callLog \o handoffCalls
                /\ UNCHANGED <<turnVars, ogVars, finalOutput, newResponse, originalInput,
                               shouldRunAgentStartHooks>>
           ELSE /\ rawResponses' = Append(rawResponses, newResponse.id)
                /\ originalInput' = turnResult.originalInput
                /\ generatedItems' = turnResult.preStepItems \o turnResult.newStepItems
                /\ decisions' = Append(decisions, turnResult.nextStep)
                /\ shouldRunAgentStartHooks' = ShouldRunAgentStartHooksAfter(turnResult.nextStep)
                /\ newResponse' = NoResponse
                /\ UNCHANGED <<error, outputGuardrailResults>>
                /\ IF turnResult.nextStep.type = "final_output"
                   THEN /\ turnOutput' = turnResult.nextStep.output
                        /\ \E guardrails \in OutputGuardrailLists :
                              /\ outputGuardrails' = guardrails
                              /\ callLog' = callLog
                                    \o ExecuteFinalOutputCalls(currentAgent, turnResult)
                                    \o OutputGuardrailCalls(currentAgent, guardrails)
                              /\ IF Len(guardrails) = 0
                                 THEN /\ finalOutput' = turnResult.nextStep.output
                                      /\ isComplete' = TRUE
                                      /\ eventQueue' = PutNowait(published,
                                                                 QUEUE_COMPLETE_SENTINEL)
                                      /\ pc' = "done"
                                      /\ UNCHANGED ogTask
                                 ELSE /\ ogTask' = AllRunning(guardrails)
                                      /\ eventQueue' = published
                                      /\ pc' = "await_output_guardrails"
                                      /\ UNCHANGED <<finalOutput, isComplete>>
                        /\ UNCHANGED currentAgent
                   ELSE /\ currentAgent' = IF turnResult.nextStep.type = "handoff"
                                           THEN turnResult.nextStep.newAgent
                                           ELSE currentAgent
                        /\ eventQueue' = published
                        /\ pc' = "loop"
                        /\ callLog' = callLog
                                          \o ExecuteFinalOutputCalls(currentAgent, turnResult)
                                          \o handoffCalls
                        /\ UNCHANGED <<turnOutput, outputGuardrails, ogTask, finalOutput,
                                       isComplete>>
    /\ UNCHANGED <<cfgVars, stepVars, igVars, usage, modelCalls, returned, consumed, currentTurn>>

\* RunStreamedImpl_OutputGuardrailsSettled storing the final output before the guardrails
\* are looked at
RunStreamedImpl_OutputGuardrailsSettled_Leaks ==
    /\ mode = "streamed"
    /\ pc = "await_output_guardrails"
    /\ AllSettled(ogTask)
    /\ finalOutput' = turnOutput
    /\ LET triggeredResult == OutputTriggeredResult(outputGuardrails)
       IN  IF triggeredResult # 0
           THEN /\ SetError(Tripwire("OutputGuardrailTripwireTriggered", triggeredResult))
                /\ UNCHANGED <<outputGuardrailResults, isComplete>>
           ELSE /\ outputGuardrailResults' = SuccessfulResults(outputGuardrails)
                /\ isComplete' = TRUE
                /\ UNCHANGED error
    /\ eventQueue' = PutNowait(eventQueue, QUEUE_COMPLETE_SENTINEL)
    /\ pc' = "done"
    /\ UNCHANGED <<cfgVars, stepVars, obsVars, igVars, outputGuardrails, ogTask, turnVars, modelVars,
                   returned, consumed, currentTurn>>

\* RunStreamedImpl_OutputGuardrailsSettled whose tripwire handler pushes the sentinel and
\* lets the exception reach the handler of the loop body, which pushes it again
RunStreamedImpl_OutputGuardrailsSettled_SentinelTwice ==
    /\ mode = "streamed"
    /\ pc = "await_output_guardrails"
    /\ AllSettled(ogTask)
    /\ LET triggeredResult == OutputTriggeredResult(outputGuardrails)
       IN  IF triggeredResult # 0
           THEN /\ SetError(Tripwire("OutputGuardrailTripwireTriggered", triggeredResult))
                /\ eventQueue' = PutNowait(PutNowait(eventQueue, QUEUE_COMPLETE_SENTINEL),
                                           QUEUE_COMPLETE_SENTINEL)
                /\ UNCHANGED <<outputGuardrailResults, finalOutput, isComplete>>
           ELSE /\ outputGuardrailResults' = SuccessfulResults(outputGuardrails)
                /\ finalOutput' = turnOutput
                /\ isComplete' = TRUE
                /\ eventQueue' = PutNowait(eventQueue, QUEUE_COMPLETE_SENTINEL)
                /\ UNCHANGED error
    /\ pc' = "done"
    /\ UNCHANGED <<cfgVars, stepVars, obsVars, igVars, outputGuardrails, ogTask, turnVars, modelVars,
                   returned, consumed, currentTurn>>

\* Runner._runOutputGuardrails after Promise.allSettled, then the end of the streamed run
RunStreamedImpl_OutputGuardrailsSettled ==
    /\ mode = "streamed"
    /\ pc = "await_output_guardrails"
    /\ AllSettled(ogTask)
    /\ LET triggeredResult == OutputTriggeredResult(outputGuardrails)
       IN  IF triggeredResult # 0
           THEN /\ SetError(Tripwire("OutputGuardrailTripwireTriggered", triggeredResult))
                /\ UNCHANGED <<outputGuardrailResults, finalOutput, isComplete>>
           ELSE /\ outputGuardrailResults' = SuccessfulResults(outputGuardrails)
                /\ finalOutput' = turnOutput
                /\ isComplete' = TRUE
                /\ UNCHANGED error
    /\ eventQueue' = PutNowait(eventQueue, QUEUE_COMPLETE_SENTINEL)
    /\ pc' = "done"
    /\ UNCHANGED <<cfgVars, stepVars, obsVars, igVars, outputGuardrails, ogTask, turnVars, modelVars,
                   returned, consumed, currentTurn>>

-----------------------------------------------------------------------------
(* Specifications *)

Next ==
    \/ Run_Loop
    \/ \E i \in 1..(MaxGuardrails + 1) : RunSingleInputGuardrail(i)
    \/ Run_InputGuardrailsSettled
    \/ GetNewResponse
    \/ Run_Step
    \/ \E i \in 1..(MaxGuardrails + 1) : RunSingleOutputGuardrail(i)
    \/ Run_OutputGuardrailsSettled
    \/ RunStreamedImpl_Start
    \/ InputGuardrailsWithQueue_Next
    \/ RunStreamedImpl_Loop
    \/ StreamResponse
    \/ RunStreamedImpl_Step
    \/ RunStreamedImpl_OutputGuardrailsSettled
    \/ StreamEvents

Spec == Init /\ [][Next]_vars

-----------------------------------------------------------------------------
(* Both entry points on the same inputs: Runner.run, then Runner.runStreamed with the
   agent, maxTurns, guardrails and model responses of the finished buffered run *)

\* the responses the model has returned so far, in order
ResponsesReceived ==
    IF newResponse # NoResponse THEN Append(rawResponses, newResponse.id) ELSE rawResponses

RunStreamed_AfterRun ==
    /\ mode = "buffered"
    /\ pc = "done"
    /\ error.kind # "Error"
    /\ first' = [valid |-> TRUE, error |-> error, finalOutput |-> finalOutput,
                 lastAgent |-> currentAgent, generatedItems |-> generatedItems,
                 decisions |-> decisions, responses |-> ResponsesReceived,
                 reachedOutput |-> turnOutput # Null, outputGuardrails |-> outputGuardrails]
    /\ mode' = "streamed"
    /\ pc' = "start"
    /\ currentTurn' = 0
    /\ currentAgent' = StartingAgent
    /\ generatedItems' = <<>>
    /\ rawResponses' = <<>>
    /\ newResponse' = NoResponse
    /\ usage' = ZeroUsage
    /\ modelCalls' = 0
    /\ decisions' = <<>>
    /\ igTask' = NoTasks
    /\ igYield' = <<>>
    /\ igQueue' = <<>>
    /\ inputGuardrailResults' = <<>>
    /\ outputGuardrails' = <<>>
    /\ ogTask' = NoTasks
    /\ outputGuardrailResults' = <<>>
    /\ turnOutput' = Null
    /\ finalOutput' = Null
    /\ error' = NoError
    /\ returned' = FALSE
    /\ isComplete' = FALSE
    /\ eventQueue' = <<>>
    /\ consumed' = 0
    /\ originalInput' = StartingInput
    /\ shouldRunAgentStartHooks' = TRUE
    /\ toolUseTracker' = {}
    /\ callLog' = <<>>
    /\ UNCHANGED <<maxTurns, inputGuardrails, inputFilter, handoffInputFilter, stepVars>>

NextPair == Next \/ RunStreamed_AfterRun

SpecPair == Init /\ [][NextPair]_vars

-----------------------------------------------------------------------------
(* C1 *)

NoThrow(list) == \A i \in Indices(list) : list[i] # "throw"

\* C1: on the same agent, input, maxTurns, model responses, tool results and guardrail
\* outcomes, none of which throws, the streamed run takes the decisions of the buffered
\* run on every turn and ends as it did: same error kind, or same final output, last
\* agent and generated items.
C1_SameOutcome ==
    (/\ first.valid /\ mode = "streamed" /\ pc = "done"
     /\ NoThrow(inputGuardrails) /\ NoThrow(outputGuardrails)
     /\ NoThrow(first.outputGuardrails))
    => /\ decisions = first.decisions
       /\ error.kind = first.error.kind
       /\ error.kind = "none" =>
             /\ finalOutput = first.finalOutput
             /\ currentAgent = first.lastAgent
             /\ generatedItems = first.generatedItems

-----------------------------------------------------------------------------
(* C2 *)

\* every model stream, tool and guardrail call ends, and the event loop runs every
\* continuation that is ready
FairSpec ==
    /\ Init
    /\ [][Next]_vars
    /\ WF_vars(Run_Loop)
    /\ WF_vars(\E i \in 1..(MaxGuardrails + 1) : RunSingleInputGuardrail(i))
    /\ WF_vars(Run_InputGuardrailsSettled)
    /\ WF_vars(GetNewResponse)
    /\ WF_vars(Run_Step)
    /\ WF_vars(\E i \in 1..(MaxGuardrails + 1) : RunSingleOutputGuardrail(i))
    /\ WF_vars(Run_OutputGuardrailsSettled)
    /\ WF_vars(RunStreamedImpl_Start)
    /\ WF_vars(InputGuardrailsWithQueue_Next)
    /\ WF_vars(RunStreamedImpl_Loop)
    /\ WF_vars(StreamResponse)
    /\ WF_vars(RunStreamedImpl_Step)
    /\ WF_vars(RunStreamedImpl_OutputGuardrailsSettled)
    /\ WF_vars(StreamEvents)

SentinelPushed == \E k \in 1..Len(eventQueue) : eventQueue[k] = QUEUE_COMPLETE_SENTINEL

ConsumerDone ==
    IF consumed = 0 THEN FALSE ELSE eventQueue[consumed] = QUEUE_COMPLETE_SENTINEL

\* C2: a streamed run always ends, on every exit path with the sentinel on the event
\* queue and with either a final output or a recorded error, and the consumer of the
\* events then comes to the sentinel and stops.
C2_SentinelOnEveryExit ==
    /\ [](mode = "streamed" /\ pc = "done"
            => SentinelPushed /\ (error.kind # "none" \/ finalOutput # Null))
    /\ (mode = "streamed") ~> (pc = "done" /\ ConsumerDone)

C2_Witness ==
    /\ mode = "streamed" /\ pc = "done" /\ ConsumerDone
    /\ error.kind = "UserError" /\ currentTurn = 2

-----------------------------------------------------------------------------
(* C3 *)

HandoffTurns == {k \in 1..Len(decisions) : decisions[k].type = "handoff"}

\* C3: in both modes the model is invoked at most maxTurns times; MaxTurnsExceeded is
\* raised exactly on attempted turn maxTurns + 1, after maxTurns model invocations and
\* maxTurns completed turns (handoff turns included) none of which produced a final
\* output; a run that ends without any error has produced a final output.
C3_MaxTurns ==
    /\ modelCalls <= maxTurns
    /\ error.kind = "MaxTurnsExceeded" =>
          /\ currentTurn = maxTurns + 1
          /\ modelCalls = maxTurns
          /\ Len(decisions) = maxTurns
          /\ turnOutput = Null
    /\ (pc = "done" /\ error.kind = "none") => turnOutput # Null
    /\ turnOutput # Null => currentTurn <= maxTurns

C3_Witness ==
    /\ error.kind = "MaxTurnsExceeded"
    /\ maxTurns = MaxTurnsBound
    /\ HandoffTurns # {}
    /\ modelCalls = maxTurns

-----------------------------------------------------------------------------
(* C4 *)

RECURSIVE SumUsage(_)
SumUsage(ids) ==
    IF ids = <<>> THEN ZeroUsage
    ELSE UsageAdd(SumUsage(Tail(ids)), ResponseById(Head(ids)).usage)

\* C4: when a run has ended, every counter of the context's usage is the sum of that
\* counter over the responses the model returned (each response added exactly once).
C4_UsageAddedOnce == pc = "done" => usage = SumUsage(ResponsesReceived)

-----------------------------------------------------------------------------
(* C5, C6 *)

\* C5: with exactly one input guardrail that trips, the others passing or throwing, a
\* finished run of either mode (with a budget of at least one turn, so that the
\* buffered run gets to its guardrails) has failed with InputGuardrailTripwireTriggered
\* carrying that guardrail's result, and the model was never called.
C5_SingleTripAborts ==
    (pc = "done" /\ maxTurns >= 1 /\ Cardinality(Tripped(inputGuardrails)) = 1) =>
        /\ error = Tripwire("InputGuardrailTripwireTriggered", Min(Tripped(inputGuardrails)))
        /\ modelCalls = 0

\* C6: the InputGuardrailTripwireTriggered of Runner.run carries the result of the
\* tripped input guardrail with the lowest index in issuance order.
C6_FirstTrippedInput ==
    (mode = "buffered" /\ error.kind = "InputGuardrailTripwireTriggered") =>
        error.guardrail = Min(Tripped(inputGuardrails))

-----------------------------------------------------------------------------
(* C7 *)

\* C7: in both modes the OutputGuardrailTripwireTriggered carries the result of the
\* tripped output guardrail with the lowest index in issuance order, whatever the order
\* in which the guardrails settled.
C7_FirstTrippedOutput ==
    error.kind = "OutputGuardrailTripwireTriggered" =>
        /\ Tripped(outputGuardrails) # {}
        /\ error.guardrail = Min(Tripped(outputGuardrails))

C7_Witness ==
    /\ error.kind = "OutputGuardrailTripwireTriggered"
    /\ Cardinality(Tripped(outputGuardrails)) >= 2
    /\ mode = "streamed"

-----------------------------------------------------------------------------
(* C8 *)

Passed(list) == {i \in Indices(list) : list[i] = "pass"}

Range(seq) == {seq[k] : k \in 1..Len(seq)}

\* C8: a guardrail that throws never ends the run, in either mode. With no input
\* guardrail tripped, a run finishes without a model call only when its turn budget is
\* zero, and once the model has been called the input guardrail results are exactly
\* those of the guardrails that passed; with no output guardrail tripped, the final
\* output of the last turn is delivered without error and the output guardrail results
\* are exactly those of the guardrails that passed.
C8_ThrowingGuardrailIgnored ==
    /\ (pc = "done" /\ Tripped(inputGuardrails) = {} /\ modelCalls = 0)
          => error.kind = "MaxTurnsExceeded"
    /\ (modelCalls >= 1 /\ Tripped(inputGuardrails) = {})
          => Range(inputGuardrailResults) = Passed(inputGuardrails)
    /\ (pc = "done" /\ turnOutput # Null /\ Tripped(outputGuardrails) = {})
          => /\ error.kind = "none"
             /\ finalOutput = turnOutput
             /\ Range(outputGuardrailResults) = Passed(outputGuardrails)

-----------------------------------------------------------------------------
(* C9 *)

SettledTrip(list, tasks) ==
    \E i \in DOMAIN tasks : tasks[i] = "settled" /\ list[i] = "trip"

SomeRunning(tasks) == \E i \in DOMAIN tasks : tasks[i] = "running"

\* C9: once a guardrail of a batch has settled with its tripwire fired, the run goes on
\* to fail without the guardrails of the batch that are still running: its next step
\* is ready whether or not they ever settle. For the input guardrails of both modes and
\* for the output guardrails.
C9_AbortDoesNotWait ==
    /\ (pc = "await_input_guardrails" /\ SettledTrip(inputGuardrails, igTask)
            /\ SomeRunning(igTask))
          => ENABLED (Run_InputGuardrailsSettled \/ InputGuardrailsWithQueue_Next)
    /\ (pc = "await_output_guardrails" /\ SettledTrip(outputGuardrails, ogTask)
            /\ SomeRunning(ogTask))
          => ENABLED (Run_OutputGuardrailsSettled \/ RunStreamedImpl_OutputGuardrailsSettled)

-----------------------------------------------------------------------------
(* C10 *)

\* C10: when an output guardrail trips on the final output of the last turn, that
\* output is never exposed: Runner.run returns no RunResult and fails with
\* OutputGuardrailTripwireTriggered; the streamed result keeps finalOutput null, and
\* when the run has ended the error is recorded on it and the sentinel is on the queue.
C10_TrippedOutputNotExposed ==
    Tripped(outputGuardrails) # {} =>
        /\ finalOutput = Null
        /\ ~returned
        /\ pc = "done" =>
              /\ error.kind = "OutputGuardrailTripwireTriggered"
              /\ mode = "streamed" => SentinelPushed

C10_Witness ==
    /\ mode = "streamed" /\ pc = "done"
    /\ turnOutput = "hello"
    /\ error.kind = "OutputGuardrailTripwireTriggered"
    /\ SentinelPushed

-----------------------------------------------------------------------------
(* C11 *)

CountEvents(queue, Is(_)) == Cardinality({k \in 1..Len(queue) : Is(queue[k])})

\* the provider streams that carried a completed response
CompletedStreams ==
    LET isCompleted(e) == e.type = "raw_response_event" /\ e.name = "response.completed"
    IN  CountEvents(eventQueue, isCompleted)

RunItemEvents ==
    LET isRunItem(e) == e.type = "run_item_stream_event"
    IN  SelectSeq(eventQueue, isRunItem)

\* C11: in streaming mode, when the provider's stream of a turn has ended without a
\* completed response, the run has ended with ModelBehaviorError recorded and the
\* sentinel pushed; the usage is that of the earlier turns only, the turn has no response,
\* no decision and no items, no RunItem event of it is on the queue, and there is no
\* final output.
C11_MissingFinalResponse ==
    (mode = "streamed" /\ modelCalls > CompletedStreams) =>
        /\ pc = "done"
        /\ error = Err("ModelBehaviorError")
        /\ SentinelPushed
        /\ newResponse = NoResponse
        /\ usage = SumUsage(rawResponses)
        /\ Len(rawResponses) = modelCalls - 1
        /\ Len(decisions) = modelCalls - 1
        /\ RunItemEvents = StreamStepResultToQueue(generatedItems)
        /\ finalOutput = Null

C11_Witness ==
    /\ mode = "streamed" /\ pc = "done"
    /\ modelCalls = 2 /\ CompletedStreams = 1
    /\ error.kind = "ModelBehaviorError"
    /\ Len(eventQueue) >= 2
    /\ eventQueue[Len(eventQueue) - 1].type = "agent_text_delta_stream_event"

-----------------------------------------------------------------------------
(* One step call by call: Runner._getSingleStepResultFromResponse with the function
   tools of the turn running concurrently and the computer actions one after another *)

MaxOutputs == 3

OutputKinds ==
    {"message", "empty_message", "reasoning", "file_search_call", "web_search_call", "computer_call",
     "t1", "t2", "t_fail", "t_boom", "t_mcp", "transfer_to_b", "transfer_to_c", "no_such_tool",
     "unknown_kind"}

\* the k-th element of a response's output; calls carry a call_id of their own
OutputElement(kind, k) ==
    CASE kind = "message" -> Message("text_" \o ToString(k))
      [] kind = "empty_message" -> Message(NoContent)
      [] kind = "computer_call" ->
            [type |-> kind, name |-> Null, call_id |-> "call_" \o ToString(k), text |-> Null]
      [] kind \in {"reasoning", "file_search_call", "web_search_call", "unknown_kind"} ->
            [type |-> kind, name |-> Null, call_id |-> Null, text |-> Null]
      [] OTHER -> FunctionCall(kind, "call_" \o ToString(k))

StepOutputs ==
    {[k \in 1..Len(kinds) |-> OutputElement(kinds[k], k)] :
        kinds \in SeqsUpTo(OutputKinds, MaxOutputs)}

StepModelResponse == [id |-> "resp_step", output |-> stepResponse, usage |-> ZeroUsage]

\* no run is in progress
RunIdle ==
    /\ mode = "buffered"
    /\ maxTurns = 0
    /\ pc = "idle"
    /\ currentTurn = 0
    /\ currentAgent = Null
    /\ generatedItems = <<>>
    /\ rawResponses = <<>>
    /\ newResponse = NoResponse
    /\ usage = ZeroUsage
    /\ modelCalls = 0
    /\ decisions = <<>>
    /\ inputGuardrails = <<>>
    /\ igTask = NoTasks
    /\ igYield = <<>>
    /\ igQueue = <<>>
    /\ inputGuardrailResults = <<>>
    /\ outputGuardrails = <<>>
    /\ ogTask = NoTasks
    /\ outputGuardrailResults = <<>>
    /\ turnOutput = Null
    /\ finalOutput = Null
    /\ error = NoError
    /\ returned = FALSE
    /\ isComplete = FALSE
    /\ eventQueue = <<>>
    /\ consumed = 0
    /\ first = NoFirst
    /\ inputFilter = Null
    /\ handoffInputFilter = Null
    /\ originalInput = <<>>
    /\ shouldRunAgentStartHooks = FALSE
    /\ toolUseTracker = {}
    /\ callLog = <<>>

runEngineVars == <<cfgVars, obsVars, igVars, ogVars, turnVars, modelVars, resultVars, streamVars,
                   pc, currentTurn>>
runVars == <<runEngineVars, libVars>>
engineVars == <<runEngineVars, stepEngineVars>>

StepInit ==
    /\ RunIdle
    /\ LibIdle
    /\ stepPc = "classify"
    /\ stepAgent \in StepAgents
    /\ stepResponse \in StepOutputs
    /\ stepProcessed = EmptyProcessed
    /\ toolTask = <<>>
    /\ toolValues = <<>>
    /\ toolOrder = <<>>
    /\ computerLog = <<>>
    /\ toolLog = <<>>
    /\ handoffsInvoked = <<>>
    /\ stepResult = NoStepResult

\* one entry of the tool log: a hook call, the invocation of a tool or the return of its
\* result; batch is "function" or "computer" and index the place of the call in its batch
ToolEvent(call, owner, batch, index) ==
    [call |-> call, owner |-> owner, batch |-> batch, index |-> index]

\* Promise.all([hooks.onToolStart(...), agent.hooks.onToolStart(...)])
OnToolStartCalls(agent, batch, index) ==
    <<ToolEvent("onToolStart", RunWide, batch, index),
      ToolEvent("onToolStart", agent, batch, index)>>

\* Promise.all([hooks.onToolEnd(...), agent.hooks.onToolEnd(...)])
OnToolEndCalls(agent, batch, index) ==
    <<ToolEvent("onToolEnd", RunWide, batch, index),
      ToolEvent("onToolEnd", agent, batch, index)>>

\* executeFinalOutput at the end of a step that decided a final output
FinalOutputHookEvents(agent, result) ==
    IF result.ok /\ result.nextStep.type = "final_output"
    THEN <<ToolEvent("onAgentEnd", RunWide, "final_output", 0),
           ToolEvent("onEnd", agent, "final_output", 0)>>
    ELSE <<>>

\* runSingleTool: the start hooks, on_invoke_tool and, unless it throws, the end hooks
RunSingleToolCalls(agent, index, throws) ==
    OnToolStartCalls(agent, "function", index)
        \o <<ToolEvent("invoke", "tool", "function", index)>>
        \o (IF throws THEN <<>>
            ELSE <<ToolEvent("result", "tool", "function", index)>>
                     \o OnToolEndCalls(agent, "function", index))

\* ComputerAction.execute up to `await outputFunc`: getScreenshotSync/getScreenshotAsync
\* is called, and calls the method of the action on the computer, before the start hooks
ComputerActionStarted(agent, index) ==
    <<ToolEvent("invoke", "tool", "computer", index)>>
        \o OnToolStartCalls(agent, "computer", index)

\* the rest of ComputerAction.execute: outputFunc has resolved with the screenshot
ComputerActionReturned(agent, index) ==
    <<ToolEvent("result", "tool", "computer", index)>>
        \o OnToolEndCalls(agent, "computer", index)

\* a step that runs the calls classified before the invalid one
Step_ProcessModelResponse_RunsValidCalls ==
    /\ stepPc = "classify"
    /\ LET p == ProcessModelResponse(stepAgent, StepModelResponse)
       IN  /\ stepProcessed' = [p EXCEPT !.ok = TRUE]
           /\ stepPc' = "execute"
           /\ toolTask' = [i \in 1..Len(p.functions) |-> "running"]
           /\ toolValues' = [i \in 1..Len(p.functions) |-> Null]
    /\ UNCHANGED <<runVars, handoffsInvoked, stepAgent, stepResponse, toolOrder,
                   computerLog, toolLog, stepResult>>

\* RunImpl.processModelResponse, then the start of executeToolsAndSideEffects: every
\* runSingleTool promise is created before any of them is awaited
Step_ProcessModelResponse ==
    /\ stepPc = "classify"
    /\ LET p == ProcessModelResponse(stepAgent, StepModelResponse)
       IN  /\ stepProcessed' = p
           /\ IF ~p.ok
              THEN /\ stepPc' = "failed"
                   /\ stepResult' = StepFailed("ModelBehaviorError")
                   /\ UNCHANGED <<toolTask, toolValues>>
              ELSE /\ stepPc' = "execute"
                   /\ toolTask' = [i \in 1..Len(p.functions) |-> "running"]
                   /\ toolValues' = [i \in 1..Len(p.functions) |-> Null]
                   /\ UNCHANGED stepResult
    /\ UNCHANGED <<runVars, handoffsInvoked, stepAgent, stepResponse, toolOrder, computerLog,
                   toolLog>>

\* runSingleTool of the i-th function tool call settles
Step_RunSingleTool(i) ==
    /\ stepPc = "execute"
    /\ i \in DOMAIN toolTask
    /\ toolTask[i] = "running"
    /\ LET call == stepProcessed.functions[i]
       IN  IF ToolThrows(call.name)
           THEN /\ toolTask' = [toolTask EXCEPT ![i] = "rejected"]
                /\ UNCHANGED toolValues
           ELSE /\ toolTask' = [toolTask EXCEPT ![i] = "fulfilled"]
                /\ toolValues' = [toolValues EXCEPT ![i] = ToolValue(call.name)]
    /\ toolOrder' = Append(toolOrder, i)
    /\ toolLog' = toolLog \o RunSingleToolCalls(stepAgent, i,
                                                 ToolThrows(stepProcessed.functions[i].name))
    /\ UNCHANGED <<runVars, handoffsInvoked, stepPc, stepAgent, stepResponse, stepProcessed,
                   computerLog, stepResult>>

\* the computer actions whose post-action screenshot has returned
ScreenshotsTaken == Cardinality({k \in 1..Len(computerLog) : computerLog[k][2] = "screenshot"})

\* ComputerAction.execute of every action started at once
Step_ComputerAction_AllAtOnce(i) ==
    /\ stepPc = "execute"
    /\ i \in 1..Len(stepProcessed.computerActions)
    /\ \A k \in 1..Len(computerLog) : computerLog[k][1] # i
    /\ computerLog' = IF AgentComputerIsAsync(stepAgent)
                      THEN Append(computerLog, <<i, "action">>)
                      ELSE computerLog \o << <<i, "action">>, <<i, "screenshot">> >>
    /\ toolLog' = toolLog \o ComputerActionStarted(stepAgent, i)
                          \o (IF AgentComputerIsAsync(stepAgent) THEN <<>>
                              ELSE ComputerActionReturned(stepAgent, i))
    /\ UNCHANGED <<runVars, handoffsInvoked, stepPc, stepAgent, stepResponse, stepProcessed,
                   toolTask, toolValues, toolOrder, stepResult>>

\* executeComputerActions reaches action i: ComputerAction.execute invokes the method of
\* the action on the computer; a synchronous computer also returns the screenshot within
\* the same call
Step_ComputerAction(i) ==
    /\ stepPc = "execute"
    /\ i \in 1..Len(stepProcessed.computerActions)
    /\ ScreenshotsTaken = i - 1
    /\ Len(computerLog) = 2 * (i - 1)
    /\ computerLog' = IF AgentComputerIsAsync(stepAgent)
                      THEN Append(computerLog, <<i, "action">>)
                      ELSE computerLog \o << <<i, "action">>, <<i, "screenshot">> >>
    /\ toolLog' = toolLog \o ComputerActionStarted(stepAgent, i)
                          \o (IF AgentComputerIsAsync(stepAgent) THEN <<>>
                              ELSE ComputerActionReturned(stepAgent, i))
    /\ UNCHANGED <<runVars, handoffsInvoked, stepPc, stepAgent, stepResponse, stepProcessed,
                   toolTask, toolValues, toolOrder, stepResult>>

\* the method of action i has returned on an asynchronous computer: its screenshot is taken
Step_ComputerScreenshot(i) ==
    /\ stepPc = "execute"
    /\ AgentComputerIsAsync(stepAgent)
    /\ \E k \in 1..Len(computerLog) : computerLog[k] = <<i, "action">>
    /\ \A k \in 1..Len(computerLog) : computerLog[k] # <<i, "screenshot">>
    /\ computerLog' = Append(computerLog, <<i, "screenshot">>)
    /\ toolLog' = toolLog \o ComputerActionReturned(stepAgent, i)
    /\ UNCHANGED <<runVars, handoffsInvoked, stepPc, stepAgent, stepResponse, stepProcessed,
                   toolTask, toolValues, toolOrder, stepResult>>

\* Promise.all rejects as soon as one runSingleTool promise is rejected
Step_ToolRejected ==
    /\ stepPc = "execute"
    /\ \E i \in DOMAIN toolTask : toolTask[i] = "rejected"
    /\ stepPc' = "failed"
    /\ stepResult' = StepFailed("UserError")
    /\ UNCHANGED <<runVars, handoffsInvoked, stepAgent, stepResponse, stepProcessed, toolTask,
                   toolValues, toolOrder, computerLog, toolLog>>

ToolsReturned ==
    /\ \A i \in DOMAIN toolTask : toolTask[i] = "fulfilled"
    /\ ScreenshotsTaken = Len(stepProcessed.computerActions)

ComputerResults ==
    [k \in 1..Len(stepProcessed.computerActions) |->
        ComputerActionOutput(stepAgent, stepProcessed.computerActions[k])]

\* the function tool results paired with the calls in the order the calls completed
Step_ToolsReturned_CompletionOrder ==
    /\ stepPc = "execute"
    /\ ToolsReturned
    /\ LET functionResults ==
               [k \in 1..Len(stepProcessed.functions) |->
                   FunctionToolResult(stepAgent, stepProcessed.functions[k],
                                      toolValues[toolOrder[k]])]
       IN  stepResult' = DecideNextStep(stepAgent, stepProcessed, functionResults,
                                        ComputerResults)
    /\ handoffsInvoked' = IF Len(stepProcessed.handoffs) > 0
                          THEN InvokedHandoffs(stepProcessed.handoffs) ELSE <<>>
    /\ toolLog' = toolLog \o FinalOutputHookEvents(stepAgent, stepResult')
    /\ stepPc' = "done"
    /\ UNCHANGED <<runVars, stepAgent, stepResponse, stepProcessed, toolTask,
                   toolValues, toolOrder, computerLog>>

\* both batches have returned: results[index] of Promise.all is paired with toolRuns[index],
\* then the rest of executeToolsAndSideEffects
Step_ToolsReturned ==
    /\ stepPc = "execute"
    /\ ToolsReturned
    /\ LET functionResults ==
               [k \in 1..Len(stepProcessed.functions) |->
                   FunctionToolResult(stepAgent, stepProcessed.functions[k], toolValues[k])]
       IN  stepResult' = DecideNextStep(stepAgent, stepProcessed, functionResults,
                                        ComputerResults)
    /\ handoffsInvoked' = IF Len(stepProcessed.handoffs) > 0
                          THEN InvokedHandoffs(stepProcessed.handoffs) ELSE <<>>
    /\ toolLog' = toolLog \o FinalOutputHookEvents(stepAgent, stepResult')
    /\ stepPc' = "done"
    /\ UNCHANGED <<runVars, stepAgent, stepResponse, stepProcessed, toolTask,
                   toolValues, toolOrder, computerLog>>

StepNext ==
    \/ Step_ProcessModelResponse
    \/ \E i \in 1..(MaxOutputs + 1) : Step_RunSingleTool(i)
    \/ \E i \in 1..(MaxOutputs + 1) : Step_ComputerAction(i)
    \/ \E i \in 1..(MaxOutputs + 1) : Step_ComputerScreenshot(i)
    \/ Step_ToolRejected
    \/ Step_ToolsReturned

StepSpec == StepInit /\ [][StepNext]_vars

\* the runs of the plain agent
PlainInit ==
    /\ \E m \in Modes : StartOfRunOf(PlainAgent, m)
    /\ LibIdle
    /\ maxTurns \in 0..MaxTurnsBound
    /\ inputGuardrails \in GuardrailLists
    /\ first = NoFirst
    /\ inputFilter = Null
    /\ handoffInputFilter = Null
    /\ StepIdle

PlainSpec == PlainInit /\ [][Next]_vars

\* the runs with handoff input filters: the handoff's own, the run-wide one, both or none
OwnFilters == {Null, "own_filter", "bad_filter"}
RunWideFilters == {Null, "run_filter", "bad_filter"}

FilterInit ==
    /\ \E m \in Modes : StartOfRun(m)
    /\ LibIdle
    /\ maxTurns = MaxTurnsBound + 1
    /\ inputGuardrails \in {<<>>, <<"pass">>}
    /\ first = NoFirst
    /\ inputFilter \in OwnFilters
    /\ handoffInputFilter \in RunWideFilters
    /\ StepIdle

FilterSpec == FilterInit /\ [][Next]_vars

\* the run loop and the single step side by side
TurnInit == Init \/ StepInit

TurnNext == Next \/ StepNext

TurnSpec == TurnInit /\ [][TurnNext]_vars

-----------------------------------------------------------------------------
(* C12 *)

\* the step has returned a SingleStepResult
StepFinished == stepPc = "done" /\ stepResult.ok

\* the handoff requests of the response, in request order
HandoffRequests ==
    LET isRequest(o) == o.type = "function_call" /\ o.name \in HandoffToolNames(stepAgent)
    IN  SelectSeq(stepResponse, isRequest)

IgnoredOutputs(items) ==
    LET isIgnored(item) ==
            item.kind = "tool_call_output_item" /\ item.text = IgnoredHandoffMessage
    IN  SelectSeq(items, isIgnored)

HandoffOutputs(items) ==
    LET isHandoffOutput(item) == item.kind = "handoff_output_item"
    IN  SelectSeq(items, isHandoffOutput)

\* the turns of the run that ended in a handoff
HandoffDecisions == {k \in 1..Len(decisions) : decisions[k].type = "handoff"}

\* C12: in a step whose response requests n >= 1 handoffs, the step result is a Handoff to
\* the target of the first request, only that request's invocation function is called,
\* each of the other n-1 requests gets exactly one 'ignored' tool-output item with its
\* call_id, in request order, and there is one handoff-output item, for the first request;
\* in a run, the agent after a handoff turn is the agent handed off to.
C12_FirstHandoffHonored ==
    /\ (StepFinished /\ Len(HandoffRequests) >= 1) =>
          LET requests == HandoffRequests
              target == HandoffTarget(stepAgent, requests[1].name)
          IN  /\ stepResult.nextStep = NextStepHandoff(target)
              /\ handoffsInvoked = <<requests[1].call_id>>
              /\ IgnoredOutputs(stepResult.newStepItems) =
                    [k \in 1..(Len(requests) - 1) |->
                        ToolCallOutputItem(stepAgent, requests[k + 1], IgnoredHandoffMessage)]
              /\ HandoffOutputs(stepResult.newStepItems) =
                    <<HandoffOutputItem(stepAgent, requests[1], target)>>
    /\ HandoffDecisions # {} =>
          currentAgent = decisions[Max(HandoffDecisions)].newAgent

C12_Witness ==
    /\ StepFinished
    /\ Len(HandoffRequests) = 2
    /\ HandoffRequests[1].name = "transfer_to_c"
    /\ HandoffRequests[2].name = "transfer_to_b"
    /\ toolOrder # <<>>

-----------------------------------------------------------------------------
(* C13 *)

\* the function tool requests and the computer requests of the response, in request order
FunctionRequests ==
    LET isRequest(o) ==
            /\ o.type = "function_call"
            /\ o.name \notin HandoffToolNames(stepAgent)
            /\ o.name \in AgentTools(stepAgent)
    IN  SelectSeq(stepResponse, isRequest)

ComputerRequests ==
    LET isRequest(o) == o.type = "computer_call"
    IN  SelectSeq(stepResponse, isRequest)

\* C13: whatever order the function tool calls complete in, the items of a finished step
\* are the classification items, then one tool-output item per function request in
\* request order (the i-th with the i-th request's call_id and the result of its tool),
\* then the computer-action outputs in request order, then the 'ignored' handoff
\* outputs, then the handoff-output item.
C13_StepItemOrder ==
    StepFinished =>
        stepResult.newStepItems =
            stepProcessed.newItems
            \o [k \in 1..Len(FunctionRequests) |->
                   ToolCallOutputItem(stepAgent, FunctionRequests[k],
                                      ToolValue(FunctionRequests[k].name))]
            \o [k \in 1..Len(ComputerRequests) |->
                   ComputerActionOutput(stepAgent, ComputerRequests[k])]
            \o [k \in 1..(Len(HandoffRequests) - 1) |->
                   ToolCallOutputItem(stepAgent, HandoffRequests[k + 1], IgnoredHandoffMessage)]
            \o (IF Len(HandoffRequests) = 0 THEN <<>>
                ELSE <<HandoffOutputItem(stepAgent, HandoffRequests[1],
                                         HandoffTarget(stepAgent, HandoffRequests[1].name))>>)

C13_Witness ==
    /\ StepFinished
    /\ Len(FunctionRequests) = 2
    /\ FunctionRequests[1].name = "t1"
    /\ FunctionRequests[2].name = "t2"
    /\ toolOrder = <<2, 1>>
    /\ Len(ComputerRequests) = 1

-----------------------------------------------------------------------------
(* C14 *)

\* C14: the calls made on the computer are those of the serial schedule: the method of
\* action 1, its screenshot, the method of action 2, its screenshot, and so on; the
\* method of an action is never invoked before the screenshot of the one before it has
\* returned, with a synchronous and with an asynchronous computer.
C14_ComputerActionsSerial ==
    \A k \in 1..Len(computerLog) :
        computerLog[k] = <<(k + 1) \div 2, IF k % 2 = 1 THEN "action" ELSE "screenshot">>

C14_Witness ==
    /\ AgentComputerIsAsync(stepAgent)
    /\ Len(ComputerRequests) = 2
    /\ Len(computerLog) = 4
    /\ toolOrder # <<>>

-----------------------------------------------------------------------------
(* C15 *)

ToolOutputs(items) ==
    LET isToolOutput(item) ==
            item.kind = "tool_call_output_item" /\ item.text # IgnoredHandoffMessage
                /\ item.text # "screenshot"
    IN  SelectSeq(items, isToolOutput)

\* the last message of the response has an empty content array
LastMessageEmpty ==
    LET messages == {k \in 1..Len(stepResponse) : stepResponse[k].type = "message"}
    IN  messages # {} /\ stepResponse[Max(messages)].text = NoContent

-----------------------------------------------------------------------------
(* C16 *)

\* a function call naming neither a handoff nor a function tool of the agent, or a
\* computer call for an agent without a computer tool
InvalidRequest(agent, o) ==
    \/ /\ o.type = "function_call"
       /\ o.name \notin HandoffToolNames(agent)
       /\ o.name \notin AgentTools(agent)
    \/ o.type = "computer_call" /\ ~AgentHasComputer(agent)

HasInvalidRequest ==
    \E k \in 1..Len(stepResponse) : InvalidRequest(stepAgent, stepResponse[k])

\* C16: a response with an invalid request fails classification with ModelBehaviorError
\* and nothing of it is executed: no function tool, no computer action and no handoff,
\* whatever stands before the invalid request; a response without one classifies, its
\* elements of unrecognized kind being skipped. In a run the error ends the run: the
\* turn has no decision (it is not RunAgain) and no further model call is made.
C16_InvalidRequestAborts ==
    /\ stepPc # "classify" =>
          IF HasInvalidRequest
          THEN /\ stepResult = StepFailed("ModelBehaviorError")
               /\ stepPc = "failed"
               /\ toolOrder = <<>>
               /\ computerLog = <<>>
               /\ handoffsInvoked = <<>>
          ELSE stepProcessed.ok
    /\ (newResponse.id = "resp_unknown" /\ pc # "step") =>
          /\ pc = "done"
          /\ error = Err("ModelBehaviorError")
          /\ ~returned
          /\ finalOutput = Null
          /\ Len(decisions) = modelCalls - 1

C16_Witness ==
    /\ stepPc = "failed"
    /\ Len(stepResponse) = 3
    /\ stepResponse[1].name = "t1"
    /\ stepResponse[2].name = "transfer_to_b"
    /\ stepResponse[3].name = "no_such_tool"
    /\ stepResult.errKind = "ModelBehaviorError"

-----------------------------------------------------------------------------
(* C17 *)

\* the output elements processModelResponse recognizes, in model-output order
RecognizedOutputs ==
    LET isRecognized(o) ==
            o.type \in {"message", "file_search_call", "web_search_call", "reasoning",
                        "computer_call", "function_call"}
    IN  SelectSeq(stepResponse, isRecognized)

\* the item variant of an output element, reasoning outputs being Reasoning items
ItemKind(agent, o) ==
    CASE o.type = "message" -> "message_output_item"
      [] o.type = "reasoning" -> "reasoning_item"
      [] o.type = "function_call" /\ o.name \in HandoffToolNames(agent) -> "handoff_call_item"
      [] OTHER -> "tool_call_item"

\* the item variant of an output element, reasoning outputs being ToolCall items
ItemKindStated(agent, o) ==
    CASE o.type = "message" -> "message_output_item"
      [] o.type = "function_call" /\ o.name \in HandoffToolNames(agent) -> "handoff_call_item"
      [] OTHER -> "tool_call_item"

Classified(Kind(_, _)) ==
    (stepPc # "classify" /\ stepProcessed.ok) =>
        /\ Len(stepProcessed.newItems) = Len(RecognizedOutputs)
        /\ \A k \in 1..Len(RecognizedOutputs) :
              /\ stepProcessed.newItems[k].kind = Kind(stepAgent, RecognizedOutputs[k])
              /\ stepProcessed.newItems[k].agent = stepAgent
              /\ stepProcessed.newItems[k].call_id = RecognizedOutputs[k].call_id
        /\ stepProcessed.computerActions = ComputerRequests
        /\ stepProcessed.handoffs = HandoffRequests
        /\ stepProcessed.functions = FunctionRequests
        /\ HasToolsToRun(stepProcessed) <=>
              Len(ComputerRequests) + Len(HandoffRequests) + Len(FunctionRequests) > 0

\* C17 as stated: a response that classifies yields one item per recognized output
\* element, in model-output order: message -> MessageOutput; file-search, web-search and
\* reasoning output -> ToolCall item, no bucket entry; computer call -> ToolCall item and a
\* computer-bucket entry; function call naming a handoff -> HandoffCall item and a
\* handoff-bucket entry; function call naming a tool -> ToolCall item and a
\* function-bucket entry; buckets keep request order; hasToolsToRun() iff a bucket is
\* non-empty.
C17_ClassificationAsStated == Classified(ItemKindStated)

\* C17 amended: the same, except that a reasoning output yields a Reasoning item (with no
\* bucket entry), not a ToolCall item.
C17_Classification == Classified(ItemKind)

C17_Witness ==
    /\ stepPc = "execute"
    /\ Len(stepResponse) = 3
    /\ stepResponse[1].type = "reasoning"
    /\ stepResponse[2].type = "unknown_kind"
    /\ stepResponse[3].type = "computer_call"
    /\ Len(stepProcessed.newItems) = 2

-----------------------------------------------------------------------------
(* C19 *)

\* the text of the last message of a response, the empty string if it has none
LastTextOf(response) ==
    LET texts == {k \in 1..Len(response.output) : response.output[k].type = "message"}
        last == response.output[Max(texts)].text
    IN  IF texts = {} \/ last \in {Null, NoContent} THEN "" ELSE last

\* C19: for the plain agent (no tools, no handoffs, plain-text output) and responses made
\* of messages only, the model is invoked at most once; once its response has been
\* processed the turn's decision is FinalOutput with the text of the last message (the
\* empty string if it has no text), and a run that ends without error returns that text.
C19_PlainAgentOneTurn ==
    /\ modelCalls <= 1
    /\ (ResponsesReceived # <<>> /\ pc \notin {"run_single_turn", "step"}) =>
          LET text == LastTextOf(ResponseById(ResponsesReceived[1]))
          IN  /\ decisions = <<NextStepFinalOutput(text)>>
              /\ turnOutput = text
              /\ (pc = "done" /\ error.kind = "none") => finalOutput = text

-----------------------------------------------------------------------------
(* C20 *)

\* what the tool of a request returns to the model
RequestOutput(request) ==
    CASE request.name = "t_fail" -> DefaultToolErrorText
      [] request.name = "t2" -> "rainy"
      [] OTHER -> "sunny"

\* the items of the step hold the call and the output of every function-tool request
CallsAndOutputsIn(items) ==
    \A k \in 1..Len(FunctionRequests) :
        LET request == FunctionRequests[k]
        IN  /\ \E i \in 1..Len(items) :
                  items[i].kind = "tool_call_item" /\ items[i].call_id = request.call_id
            /\ \E i \in 1..Len(items) :
                  /\ items[i].kind = "tool_call_output_item"
                  /\ items[i].call_id = request.call_id
                  /\ items[i].text = RequestOutput(request)

\* a step without handoff request whose function tools have all been executed
ToolsExecuted ==
    /\ stepPc \in {"done", "failed"}
    /\ stepProcessed.ok
    /\ HandoffRequests = <<>>
    /\ FunctionRequests # <<>>
    /\ \A k \in 1..Len(FunctionRequests) : FunctionRequests[k].name # "t_boom"

\* C20: in a step with no handoff request in which at least one function tool was
\* executed, policy run_llm_again yields RunAgain with the tool calls and outputs among
\* the items handed to the next turn; stop_on_first_tool yields FinalOutput with the
\* output of the first request in request order; stop_at_tool_names yields FinalOutput
\* with the output of the first request in request order whose tool is named, and
\* RunAgain if none is; whatever the order the calls complete in. In the run, after a
\* RunAgain decision on a tool call, the call and its output are among the generated
\* items the next model input is built from.
C20_ToolUsePolicy ==
    /\ ToolsExecuted =>
          /\ stepResult.ok
          /\ CASE stepAgent = "E" ->
                    stepResult.nextStep = NextStepFinalOutput(RequestOutput(FunctionRequests[1]))
               [] stepAgent = "F" ->
                    LET named == {k \in 1..Len(FunctionRequests) :
                                     FunctionRequests[k].name \in {"t2", "t_fail"}}
                    IN  IF named = {}
                        THEN /\ stepResult.nextStep = NextStepRunAgain
                             /\ CallsAndOutputsIn(stepResult.newStepItems)
                        ELSE stepResult.nextStep =
                                 NextStepFinalOutput(RequestOutput(FunctionRequests[Min(named)]))
               [] OTHER ->
                    /\ stepResult.nextStep = NextStepRunAgain
                    /\ CallsAndOutputsIn(stepResult.newStepItems)
    /\ (rawResponses # <<>> /\ rawResponses[Len(rawResponses)] = "resp_tool"
            /\ Len(decisions) = Len(rawResponses)) =>
          /\ decisions[Len(decisions)] = NextStepRunAgain
          /\ \E i \in 1..Len(generatedItems) :
                generatedItems[i].kind = "tool_call_item" /\ generatedItems[i].call_id = "call_1"
          /\ \E i \in 1..Len(generatedItems) :
                /\ generatedItems[i].kind = "tool_call_output_item"
                /\ generatedItems[i].call_id = "call_1"
                /\ generatedItems[i].text = "sunny"

-----------------------------------------------------------------------------
(* C21 *)

\* position in the items of the output item answering a call, 0 if there is none
OutputPosition(items, call_id, kind) ==
    LET at == {i \in 1..Len(items) : items[i].kind = kind /\ items[i].call_id = call_id}
    IN  IF at = {} THEN 0 ELSE Min(at)

\* C21: a step whose response requests a handoff never yields FinalOutput or RunAgain: its
\* result is the handoff to the first requested agent, whatever the tool-use policy and
\* whatever messages the response holds, or the step fails with the error of a rejecting
\* tool. The function tools and computer actions of the response have all returned before
\* the handoff is invoked, and their outputs are recorded before the handoff output.
C21_HandoffTakesPrecedence ==
    /\ (stepPc \in {"done", "failed"} /\ stepProcessed.ok /\ HandoffRequests # <<>>) =>
          IF stepResult.ok
          THEN /\ stepResult.nextStep.type = "handoff"
               /\ stepResult.nextStep.newAgent =
                      (IF HandoffRequests[1].name = "transfer_to_b" THEN "B" ELSE "C")
               /\ LET items == stepResult.newStepItems
                      handoffAt == OutputPosition(items, HandoffRequests[1].call_id,
                                                  "handoff_output_item")
                  IN  /\ handoffAt = Len(items)
                      /\ \A k \in 1..Len(FunctionRequests) :
                            LET at == OutputPosition(items, FunctionRequests[k].call_id,
                                                     "tool_call_output_item")
                            IN  0 < at /\ at < handoffAt
                      /\ \A k \in 1..Len(ComputerRequests) :
                            LET at == OutputPosition(items, ComputerRequests[k].call_id,
                                                     "tool_call_output_item")
                            IN  0 < at /\ at < handoffAt
          ELSE /\ stepResult = StepFailed("UserError")
               /\ \E k \in 1..Len(FunctionRequests) : FunctionRequests[k].name = "t_boom"
    /\ handoffsInvoked # <<>> =>
          /\ \A i \in DOMAIN toolTask : toolTask[i] = "fulfilled"
          /\ Len(toolOrder) = Len(FunctionRequests)
          /\ Len(computerLog) = 2 * Len(ComputerRequests)

\* agent E stops on the first tool; the response holds a tool call, a handoff request
\* and a message
C21_Witness ==
    /\ StepFinished
    /\ stepAgent = "E"
    /\ Len(stepResponse) = 3
    /\ stepResponse[1].name = "t1"
    /\ stepResponse[2].name = "transfer_to_c"
    /\ stepResponse[3].type = "message"
    /\ handoffsInvoked = <<"call_2">>

-----------------------------------------------------------------------------
(* C22 *)

\* the calls of one kind, in the order they were made
CallsOf(kind) ==
    LET isKind(c) == c.call = kind
    IN  SelectSeq(callLog, isKind)

\* the positions in the log of the calls of one kind
CallPositions(kind) == {k \in 1..Len(callLog) : callLog[k].call = kind}

\* C22: in a run started with agent A, with or without a handoff: the input guardrails
\* invoked are A's own followed by the run-wide ones, each at most once, all before the
\* first model call, and none on behalf of an agent reached by handoff; output guardrails
\* are invoked only once a turn has produced FinalOutput, each once, and they are the
\* guardrail of the agent that produced the final output followed by the run-wide ones.
C22_GuardrailsInvoked ==
    pc # "idle" =>
       /\ \A k \in 1..Len(CallsOf("input_guardrail")) :
             LET c == CallsOf("input_guardrail")[k]
             IN  /\ c.other = "guardrail_" \o ToString(k)
                 /\ c.owner = (IF k = 1 THEN "A" ELSE "run")
                 /\ c.agent = "A"
       /\ Len(CallsOf("input_guardrail")) \in {0, Len(inputGuardrails)}
       /\ modelCalls > 0 => Len(CallsOf("input_guardrail")) = Len(inputGuardrails)
       /\ \A i \in CallPositions("input_guardrail"), j \in CallPositions("getResponse") : i < j
       /\ CallsOf("output_guardrail") # <<>> =>
             /\ decisions # <<>>
             /\ decisions[Len(decisions)].type = "final_output"
             /\ \A j \in CallPositions("getResponse"), i \in CallPositions("output_guardrail") :
                   j < i
       /\ \A k \in 1..Len(CallsOf("output_guardrail")) :
             LET c == CallsOf("output_guardrail")[k]
             IN  /\ c.other = "guardrail_" \o ToString(k)
                 /\ c.owner = (IF k = 1 THEN currentAgent ELSE "run")
                 /\ c.agent = currentAgent
       /\ Len(CallsOf("output_guardrail")) = Len(outputGuardrails)
       /\ (decisions # <<>> /\ decisions[Len(decisions)].type = "final_output") =>
             turnOutput # Null

\* a run handed off from A to B that ended with B's final output, two guardrails on each side
C22_Witness ==
    /\ pc = "done"
    /\ error = NoError
    /\ currentAgent = "B"
    /\ Len(CallsOf("input_guardrail")) = 2
    /\ Len(CallsOf("output_guardrail")) = 2
    /\ CallsOf("output_guardrail")[1].owner = "B"
    /\ Len(CallsOf("getResponse")) = 2

-----------------------------------------------------------------------------
(* C23 *)

\* the filter configured for the handoff of the starting agent
ConfiguredFilter == IF inputFilter # Null THEN inputFilter ELSE handoffInputFilter

\* the first model call made after position k of the log
NextModelCall(k) == Min({j \in CallPositions("getResponse") : j > k})

\* C23: when a handoff is executed and a filter is configured, the filter called is the
\* handoff's own if there is one and the run-wide one otherwise; it is called once, on
\* the input history, the items generated before the turn and the items of the turn, the
\* handoff output last; the input of the next model call is the history and the items the
\* filter returned, and the next agent is the target. If the filter returns something else
\* the run ends with UserError, no handoff decision is recorded and the agent is unchanged.
C23_HandoffInputFilter ==
    /\ Len(CallsOf("inputFilter")) <= 1
    /\ Len(CallsOf("inputFilter")) =
          (IF ConfiguredFilter # Null /\ CallsOf("onHandoff") # <<>> THEN 1 ELSE 0)
    /\ \A k \in CallPositions("inputFilter") :
          LET c == callLog[k]
              filtered == ApplyFilter(c.owner, HandoffInputData(c.input.history,
                                                                c.input.items,
                                                                c.input.newItems))
          IN  /\ c.owner = (IF inputFilter # Null THEN inputFilter ELSE handoffInputFilter)
              /\ c.input.history = <<"hello">>
              /\ c.input.newItems # <<>>
              /\ c.input.newItems[Len(c.input.newItems)].kind = "handoff_output_item"
              /\ c.owner = "bad_filter" =>
                    /\ k = Len(callLog)
                    /\ pc = "done"
                    /\ error = Err("UserError")
                    /\ currentAgent = "A"
                    /\ c.input.items = generatedItems
                    /\ \A d \in 1..Len(decisions) : decisions[d].type # "handoff"
              /\ c.owner # "bad_filter" =>
                    /\ currentAgent = "B"
                    /\ decisions # <<>>
                    /\ Len(generatedItems) >= Len(filtered.preHandoffItems \o filtered.newItems)
                    /\ SubSeq(generatedItems, 1,
                              Len(filtered.preHandoffItems \o filtered.newItems))
                          = filtered.preHandoffItems \o filtered.newItems
                    /\ originalInput = filtered.inputHistory
                    /\ originalInput = Append(<<"hello">>,
                                              IF c.owner = "own_filter" THEN "own" ELSE "run")
                    /\ (\E j \in CallPositions("getResponse") : j > k) =>
                          /\ callLog[NextModelCall(k)].agent = "B"
                          /\ callLog[NextModelCall(k)].input.history = filtered.inputHistory
                          /\ callLog[NextModelCall(k)].input.items =
                                 filtered.preHandoffItems \o filtered.newItems

\* the run-wide filter is used for a handoff on the second turn, after a tool call, and
\* the next agent's model has been called
C23_Witness ==
    /\ inputFilter = Null
    /\ handoffInputFilter = "run_filter"
    /\ Len(decisions) = 2
    /\ decisions[2].type = "handoff"
    /\ CallsOf("inputFilter") # <<>>
    /\ Len(CallsOf("getResponse")) = 3
    /\ Len(generatedItems) > 0

-----------------------------------------------------------------------------
(* C24 *)

\* C24: on every handoff from A to B the run-level onHandoff hook is called with (from A,
\* to B) and the onHandoff hook of the incoming agent B is called with (agent B, source
\* A); B's start hooks, the run-level onAgentStart and B's own onStart, are called before
\* B's first model call.
C24_HandoffHooks ==
    \A d \in 1..Len(decisions) :
        decisions[d].type = "handoff" =>
            /\ \E k \in CallPositions("onHandoff") :
                  /\ callLog[k].owner = "run"
                  /\ callLog[k].agent = "A"
                  /\ callLog[k].other = "B"
            /\ \E k \in CallPositions("onHandoff") :
                  /\ callLog[k].owner = "B"
                  /\ callLog[k].agent = "B"
                  /\ callLog[k].other = "A"
            /\ \A j \in CallPositions("getResponse") :
                  callLog[j].agent = "B" =>
                      /\ \E k \in CallPositions("onAgentStart") :
                            k < j /\ callLog[k].owner = "run" /\ callLog[k].agent = "B"
                      /\ \E k \in CallPositions("onStart") :
                            k < j /\ callLog[k].owner = "B" /\ callLog[k].agent = "B"

-----------------------------------------------------------------------------
(* C25 *)

\* the response asks for a tool of the agent's MCP server, and for nothing the agent
\* does not offer
AsksMcpTool ==
    /\ \E k \in 1..Len(stepResponse) : stepResponse[k].name = "t_mcp"
    /\ \A k \in 1..Len(stepResponse) :
          /\ stepResponse[k].name # "no_such_tool"
          /\ stepResponse[k].type = "computer_call" => stepAgent \in {"D", "F"}

\* C25: a function call naming a tool listed by one of the agent's MCP servers is
\* classified into the function bucket, with a tool-call item, and is not rejected with
\* ModelBehaviorError.
C25_McpToolsDispatched ==
    (stepPc \notin {"idle", "classify"} /\ AsksMcpTool) =>
        /\ stepProcessed.ok
        /\ stepResult # StepFailed("ModelBehaviorError")
        /\ \A k \in 1..Len(stepResponse) :
              stepResponse[k].name = "t_mcp" =>
                  /\ \E i \in 1..Len(stepProcessed.functions) :
                        stepProcessed.functions[i].call_id = stepResponse[k].call_id
                  /\ \E i \in 1..Len(stepProcessed.newItems) :
                        /\ stepProcessed.newItems[i].kind = "tool_call_item"
                        /\ stepProcessed.newItems[i].call_id = stepResponse[k].call_id

-----------------------------------------------------------------------------
(* C26 *)

\* C26: agents A and B are configured with tool_choice "required"; A has reset_tool_choice
\* = true. Once A has used a tool in an earlier turn, the settings of A's next model call
\* no longer carry "required"; before any tool use, and for B, whose reset_tool_choice is
\* false, the configured tool_choice is passed unchanged.
C26_ToolChoiceReset ==
    \A n \in 1..Len(CallsOf("getResponse")) :
        LET c == CallsOf("getResponse")[n]
        IN  IF c.agent = "A" /\ n > 1 /\ rawResponses[n - 1] = "resp_tool"
            THEN c.other # "required"
            ELSE c.other = "required"

-----------------------------------------------------------------------------
(* C27 *)

IsRawEvent(e) == e.type = "raw_response_event"
IsRawDelta(e) == IsRawEvent(e) /\ e.name = "response.output_text.delta"
IsRawCompleted(e) == IsRawEvent(e) /\ e.name = "response.completed"
IsTextDelta(e) == e.type = "agent_text_delta_stream_event"
IsRunItemEvent(e) == e.type = "run_item_stream_event"

\* the completed provider streams before position p of the queue
CompletedBefore(p) == Cardinality({q \in 1..(p - 1) : IsRawCompleted(eventQueue[q])})

\* the deltas published while the stream of the k-th model call was read
DeltasOfTurn(k) ==
    LET positions == {p \in 1..Len(eventQueue) :
                          IsTextDelta(eventQueue[p]) /\ CompletedBefore(p) = k - 1}
        deltas == SelectIndices(Len(eventQueue), positions)
    IN  [j \in 1..Len(deltas) |-> eventQueue[deltas[j]].name]

RawEventsOfTurn(k) ==
    Cardinality({p \in 1..Len(eventQueue) :
                     /\ IsRawEvent(eventQueue[p])
                     /\ CompletedBefore(p) = k - 1})

\* the generated items the k-th model call was given: those of the turns before it
ItemsBeforeTurn(k) == Len(CallsOf("getResponse")[k].input.items)

\* the turn whose step produced the j-th generated item
TurnOfItem(j) == Max({k \in 1..Len(CallsOf("getResponse")) : ItemsBeforeTurn(k) < j})

ItemOrdinal(p) == Cardinality({q \in 1..p : IsRunItemEvent(eventQueue[q])})

\* C27: in streaming mode every text-delta event of the provider is on the queue as a raw
\* event followed immediately by one AgentTextDeltaStreamEvent; the raw events and deltas
\* of a turn are those of the provider's stream, in its order; the RunItem events carry
\* the generated items of the run, each once and in order; and the RunItem events of a
\* turn follow the completed event of that turn's stream with no raw event between them.
C27_StreamEventOrder ==
    mode = "streamed" =>
        /\ \A p \in 1..Len(eventQueue) :
              /\ IsRawDelta(eventQueue[p]) =>
                    p < Len(eventQueue) /\ IsTextDelta(eventQueue[p + 1])
              /\ IsTextDelta(eventQueue[p]) => p > 1 /\ IsRawDelta(eventQueue[p - 1])
              /\ IsRunItemEvent(eventQueue[p]) =>
                    /\ p > 1
                    /\ IsRunItemEvent(eventQueue[p - 1]) \/ IsRawCompleted(eventQueue[p - 1])
                    /\ CompletedBefore(p) = TurnOfItem(ItemOrdinal(p))
        /\ \A k \in 1..Len(rawResponses) :
              /\ DeltasOfTurn(k) = ProviderDeltas(ResponseById(rawResponses[k]).output)
              /\ RawEventsOfTurn(k) = Len(DeltasOfTurn(k)) + 1
        /\ [j \in 1..Len(RunItemEvents) |-> RunItemEvents[j].item] = generatedItems

C27_Witness ==
    /\ mode = "streamed" /\ pc = "done"
    /\ error = NoError
    /\ Len(rawResponses) = 2
    /\ Len(DeltasOfTurn(2)) = 1
    /\ Len(generatedItems) = 3
    /\ TurnOfItem(2) = 1 /\ TurnOfItem(3) = 2
    /\ IsRunItemEvent(eventQueue[Len(eventQueue) - 1])

-----------------------------------------------------------------------------
(* C28 *)

IsPrefixOf(s, t) == Len(s) <= Len(t) /\ SubSeq(t, 1, Len(s)) = s

\* the generated items at the start of each turn of the run, then those held now
GeneratedItemsHistory ==
    LET calls == CallsOf("getResponse")
    IN  [k \in 1..Len(calls) |-> calls[k].input.items] \o <<generatedItems>>

\* the positions in the log of the input filter calls made in the k-th turn of the run
FilterCallsInTurn(k) ==
    LET calls == SelectIndices(Len(callLog), CallPositions("getResponse"))
    IN  {p \in CallPositions("inputFilter") :
            /\ calls[k] < p
            /\ k < Len(calls) => p < calls[k + 1]}

\* the k-th turn of the run ended in a handoff whose input filter was applied
FilterAppliedInTurn(k) == FilterCallsInTurn(k) # {}

\* C28 as stated: the generated items after a turn are a prefix of those after the next
\* turn, handoff turns included.
C28_AppendOnly ==
    \A k \in 1..(Len(GeneratedItemsHistory) - 1) :
        IsPrefixOf(GeneratedItemsHistory[k], GeneratedItemsHistory[k + 1])

\* C28: the generated items after a turn are a prefix of those after the next turn, for
\* every turn but a handoff turn whose input filter was applied; after such a turn the
\* generated items are the items the filter returned.
C28_AppendOnlyUnlessFiltered ==
    \A k \in 1..(Len(GeneratedItemsHistory) - 1) :
        IF FilterAppliedInTurn(k)
        THEN LET applied == callLog[CHOOSE p \in FilterCallsInTurn(k) : TRUE]
                 given == applied.input
                 filtered == ApplyFilter(applied.owner,
                                         HandoffInputData(given.history, given.items,
                                                          given.newItems))
             IN  /\ GeneratedItemsHistory[k] = given.items
                 /\ filtered.valid =>
                       GeneratedItemsHistory[k + 1]
                           = filtered.preHandoffItems \o filtered.newItems
        ELSE IsPrefixOf(GeneratedItemsHistory[k], GeneratedItemsHistory[k + 1])

C28_Witness ==
    /\ pc = "done" /\ error = NoError
    /\ ConfiguredFilter = Null
    /\ Len(decisions) = 3
    /\ decisions[1].type = "run_again" /\ decisions[2].type = "handoff"
    /\ Len(GeneratedItemsHistory) = 4
    /\ Len(GeneratedItemsHistory[2]) = 2
    /\ Len(GeneratedItemsHistory[3]) = 4
    /\ Len(GeneratedItemsHistory[4]) = 5

-----------------------------------------------------------------------------
(* C29 *)

ToolLogPositions(call, batch, index) ==
    {k \in 1..Len(toolLog) :
        toolLog[k].call = call /\ toolLog[k].batch = batch /\ toolLog[k].index = index}

\* the start hooks of a tool execution were both called before position k of the log
StartHooksBefore(k) ==
    \A owner \in {RunWide, stepAgent} :
        \E j \in ToolLogPositions("onToolStart", toolLog[k].batch, toolLog[k].index) :
            j < k /\ toolLog[j].owner = owner

\* the tool of an execution returned its result before position k of the log
ResultBefore(k) ==
    \E j \in ToolLogPositions("result", toolLog[k].batch, toolLog[k].index) : j < k

\* C29 for one batch of tool executions
ToolHooksInOrder(batch) ==
    \A k \in 1..Len(toolLog) :
        toolLog[k].batch = batch =>
            /\ toolLog[k].call = "invoke" => StartHooksBefore(k)
            /\ toolLog[k].call = "onToolEnd" => ResultBefore(k)

\* C29: for every function tool call and every computer action, the run-level and the
\* agent-level onToolStart hooks have been called before the tool is invoked, onToolEnd
\* is called only after the tool returned its result, and it is not called for a
\* function tool call that throws.
C29_ToolHooksOrder ==
    /\ ToolHooksInOrder("function")
    /\ ToolHooksInOrder("computer")
    /\ \A i \in 1..Len(stepProcessed.functions) :
          ToolThrows(stepProcessed.functions[i].name) =>
              ToolLogPositions("onToolEnd", "function", i) = {}

-----------------------------------------------------------------------------
(* C30 *)

\* the positions in the log of the model calls of the run, in order
ModelCallPositions == SelectIndices(Len(callLog), CallPositions("getResponse"))

\* the n-th model call of the run is the first one of its agent since the agent became the
\* current one: it is the first call of the run or the turn before it ended in a handoff
AgentChangedBefore(n) == n = 1 \/ decisions[n - 1].type = "handoff"

\* C30: in both modes, a model call that is the first of the run, or the first after a
\* handoff, is immediately preceded by the run-level onAgentStart and the agent's own
\* onStart, both for the agent of the call; no start hook precedes a model call that
\* follows a RunAgain turn; and the start hooks are called nowhere else, so each is called
\* once per agent change.
C30_StartHooksOncePerAgentChange ==
    /\ \A n \in 1..Len(ModelCallPositions) :
          LET p == ModelCallPositions[n]
          IN  IF AgentChangedBefore(n)
              THEN /\ p > 2
                   /\ callLog[p - 2].call = "onAgentStart"
                   /\ callLog[p - 2].owner = RunWide
                   /\ callLog[p - 2].agent = callLog[p].agent
                   /\ callLog[p - 1].call = "onStart"
                   /\ callLog[p - 1].owner = callLog[p].agent
                   /\ callLog[p - 1].agent = callLog[p].agent
                   /\ n > 1 => callLog[p].agent = decisions[n - 1].newAgent
              ELSE callLog[p - 1].call \notin {"onAgentStart", "onStart"}
    /\ LET changes == Cardinality({n \in 1..Len(ModelCallPositions) : AgentChangedBefore(n)})
       IN  /\ Cardinality(CallPositions("onAgentStart")) = changes
           /\ Cardinality(CallPositions("onStart")) = changes

C30_Witness ==
    /\ mode = "streamed" /\ pc = "done"
    /\ Len(ModelCallPositions) = 3
    /\ decisions[1].type = "run_again" /\ decisions[2].type = "handoff"
    /\ Cardinality(CallPositions("onAgentStart")) = 2
    /\ callLog[ModelCallPositions[3] - 1].owner = "B"

-----------------------------------------------------------------------------
(* Agent.clone called on a constructed agent *)

CloneInit ==
    /\ RunIdle
    /\ StepIdle
    /\ BatchIdle
    /\ ScopeIdle
    /\ ActionIdle
    /\ clonePc = "constructed"
    /\ \E props \in AgentPropsGiven :
          /\ thisAgent = AgentConstructor(props)
          /\ agentBefore = AgentConstructor(props)
    /\ cloneOverrides = NoOverrides
    /\ clonedAgent = NoProps

\* const anotherAgent = agent.clone(overrides)
Agent_Clone ==
    /\ clonePc = "constructed"
    /\ \E overrides \in OverridesGiven :
          /\ cloneOverrides' = overrides
          /\ thisAgent' = AgentClone(thisAgent, overrides).this
          /\ clonedAgent' = AgentClone(thisAgent, overrides).returned
    /\ clonePc' = "cloned"
    /\ UNCHANGED <<engineVars, batchVars, scopeVars, actionVars, agentBefore>>

CloneNext == Agent_Clone

CloneSpec == CloneInit /\ [][CloneNext]_vars

-----------------------------------------------------------------------------
(* C31 *)

\* C31: the agent clone returns equals the agent it was called on in every field that
\* is not overridden, and the agent it was called on has the fields it was constructed
\* with.
C31_CloneKeepsOtherFields ==
    clonePc = "cloned" =>
        /\ \A field \in AgentFields \ DOMAIN cloneOverrides :
              clonedAgent[field] = agentBefore[field]
        /\ thisAgent = agentBefore

C31_Witness ==
    /\ clonePc = "cloned"
    /\ DOMAIN cloneOverrides = {"instructions"}
    /\ cloneOverrides["instructions"] = "new"
    /\ clonedAgent["instructions"] = "new"
    /\ agentBefore["instructions"] = "given_instructions"
    /\ agentBefore["handoffs"] = Undefined
    /\ clonedAgent["tools"] = "given_tools"

-----------------------------------------------------------------------------
(* The spans of a run: the agent span of Runner.run and the spans of the scoped
   operations of each turn (function tools, guardrail checks, a handoff) *)

BatchKinds == {"none", "function", "guardrail", "handoff"}

BatchSizes(kind) ==
    CASE kind = "none" -> {0}
      [] kind = "handoff" -> {1}
      [] OTHER -> 1..MaxTasks

ScopeInit ==
    /\ RunIdle
    /\ StepIdle
    /\ BatchIdle
    /\ CloneIdle
    /\ ActionIdle
    /\ scopePc = "loop"
    /\ scopeTurn = 0
    /\ runnerSpan = Null
    /\ currentSpan = Null
    /\ spans = [id \in SpanIds |-> NewSpan]
    /\ scopeOps = [id \in SpanIds |-> NoOp]

OpsOfTurn(turn) == {id \in SpanIds : scopeOps[id].turn = turn}
Settled(id) == spans[id].state = "finished"

\* the top of the loop of Runner.run: the agent span is created and started if there is
\* none, then the scoped operations of the turn are launched
Scope_TurnStart ==
    /\ scopePc = "loop"
    /\ scopeTurn < MaxScopeTurns
    /\ scopeTurn' = scopeTurn + 1
    /\ \E kind \in BatchKinds : \E n \in BatchSizes(kind) :
       \E outcomes \in [1..n -> {"ok", "throws"}] :
          LET turn == scopeTurn + 1
              agentId == IF runnerSpan = Null THEN AgentSpanId(turn) ELSE runnerSpan
              withAgent == SpanStart(Scope(spans, currentSpan), agentId, TRUE)
              ids == [i \in 1..n |-> OpSpanId(turn, i)]
              launched == StartAll(withAgent, ids)
          IN  /\ runnerSpan' = agentId
              /\ spans' = launched.spans
              /\ currentSpan' = launched.current
              /\ scopeOps' = [id \in SpanIds |->
                                 IF \E i \in 1..n : id = ids[i]
                                 THEN [kind |-> kind, turn |-> turn,
                                       outcome |-> outcomes[CHOOSE i \in 1..n : id = ids[i]]]
                                 ELSE scopeOps[id]]
    /\ scopePc' = "batch"
    /\ UNCHANGED <<engineVars, batchVars, cloneVars, actionVars>>

\* the awaited call of one scoped operation returns or throws: finish(true) is called on
\* its span in the try block, respectively in the catch block
Scope_Settle(id) ==
    /\ scopeOps[id].kind # "none"
    /\ spans[id].state = "started"
    /\ LET finished == SpanFinish(Scope(spans, currentSpan), id, TRUE)
       IN  /\ spans' = finished.spans
           /\ currentSpan' = finished.current
    /\ UNCHANGED <<engineVars, batchVars, cloneVars, actionVars, scopePc, scopeTurn, runnerSpan, scopeOps>>

\* Promise.all over the function tools rejects with the first rejection; the guardrail
\* batches wait for every check, and so does a batch that does not fail
BatchReturned ==
    \/ \A id \in OpsOfTurn(scopeTurn) : Settled(id)
    \/ \E id \in OpsOfTurn(scopeTurn) :
          /\ scopeOps[id].kind = "function"
          /\ scopeOps[id].outcome = "throws"
          /\ Settled(id)

BatchThrew ==
    \E id \in OpsOfTurn(scopeTurn) :
        /\ scopeOps[id].outcome = "throws"
        /\ scopeOps[id].kind # "guardrail"
        /\ Settled(id)

\* the ways a turn can end: an exception (a failed call, MaxTurnsExceeded, a tripwire), a
\* handoff, RunAgain or a final output
TurnOutcomes ==
    IF BatchThrew THEN {"error"}
    ELSE IF \E id \in OpsOfTurn(scopeTurn) : scopeOps[id].kind = "handoff" THEN {"handoff"}
    ELSE {"error", "final_output"}
             \cup (IF scopeTurn < MaxScopeTurns THEN {"run_again"} ELSE {})

\* the rest of the loop body of Runner.run: a handoff finishes the agent span and drops
\* it; an exception and a final output leave through `finally`, which finishes the
\* agent span if there is one
Scope_TurnEnd ==
    /\ scopePc = "batch"
    /\ BatchReturned
    /\ \E outcome \in TurnOutcomes :
          LET finished == SpanFinish(Scope(spans, currentSpan), runnerSpan, TRUE)
          IN  CASE outcome = "run_again" ->
                     /\ scopePc' = "loop"
                     /\ UNCHANGED <<runnerSpan, spans, currentSpan>>
                [] outcome = "handoff" ->
                     /\ scopePc' = IF scopeTurn < MaxScopeTurns THEN "loop" ELSE "done"
                     /\ runnerSpan' = Null
                     /\ spans' = finished.spans
                     /\ currentSpan' = finished.current
                [] OTHER ->
                     /\ scopePc' = "done"
                     /\ spans' = finished.spans
                     /\ currentSpan' = finished.current
                     /\ UNCHANGED runnerSpan
    /\ UNCHANGED <<engineVars, batchVars, cloneVars, actionVars, scopeTurn, scopeOps>>

\* finish is called once more on a span that has finished
Scope_FinishAgain(id) ==
    /\ scopePc = "done"
    /\ spans[id].state = "finished"
    /\ spans[id].finishCalls = 1
    /\ LET finished == SpanFinish(Scope(spans, currentSpan), id, TRUE)
       IN  /\ spans' = finished.spans
           /\ currentSpan' = finished.current
    /\ UNCHANGED <<engineVars, batchVars, cloneVars, actionVars, scopePc, scopeTurn, runnerSpan, scopeOps>>

ScopeNext ==
    \/ Scope_TurnStart
    \/ \E id \in SpanIds : Scope_Settle(id)
    \/ Scope_TurnEnd
    \/ \E id \in SpanIds : Scope_FinishAgain(id)

ScopeSpec == ScopeInit /\ [][ScopeNext]_vars

-----------------------------------------------------------------------------
(* C32 *)

\* C32: once every scoped operation of a turn's batch has finished, in whatever order and
\* whether it returned or threw, and before the turn goes on, the current span is the
\* agent span again.
C32_CurrentSpanRestored ==
    (scopePc = "batch" /\ \A id \in OpsOfTurn(scopeTurn) : Settled(id)) =>
        currentSpan = runnerSpan

-----------------------------------------------------------------------------
(* C33 *)

\* the input guardrails in the order their promises settled
CompletionOrder ==
    LET settled == CallsOf("input_guardrail_settled")
    IN  [k \in 1..Len(settled) |->
            CHOOSE i \in 1..Len(inputGuardrails) : GuardrailName(i) = settled[k].other]

\* the results on the input guardrail queue, the sentinel left out
PublishedResults ==
    LET isResult(entry) == entry # IgSentinel
    IN  SelectSeq(igQueue, isResult)

IgSentinels == {k \in 1..Len(igQueue) : igQueue[k] = IgSentinel}

\* the longest prefix of a sequence of guardrails that holds no guardrail of the given
\* outcome before its last element
RECURSIVE UpToFirst(_, _)
UpToFirst(order, outcome) ==
    IF order = <<>> THEN <<>>
    ELSE IF inputGuardrails[Head(order)] = outcome THEN <<Head(order)>>
    ELSE <<Head(order)>> \o UpToFirst(Tail(order), outcome)

\* the guardrails that completed successfully, in completion order
SuccessfullyCompleted ==
    LET succeeded(i) == inputGuardrails[i] # "throw"
    IN  SelectSeq(CompletionOrder, succeeded)

\* C33: in streaming mode, once the sentinel is on the input guardrail queue, the queue
\* holds the successfully completed results in completion order up to and including the
\* first tripped one, each once, followed by exactly one sentinel; a recorded
\* InputGuardrailTripwireTriggered carries the last result published.
C33_InputGuardrailQueue ==
    (mode = "streamed" /\ IgSentinels # {}) =>
        /\ PublishedResults = UpToFirst(SuccessfullyCompleted, "trip")
        /\ IgSentinels = {Len(igQueue)}
        /\ error.kind = "InputGuardrailTripwireTriggered" =>
              /\ PublishedResults # <<>>
              /\ error.guardrail = PublishedResults[Len(PublishedResults)]

-----------------------------------------------------------------------------
(* C34 *)

SentinelPositions == {k \in 1..Len(eventQueue) : eventQueue[k] = QUEUE_COMPLETE_SENTINEL}

\* C34: in streaming mode a sentinel on the event queue is always its last element, so
\* nothing is pushed after it, and once the producer has finished the queue holds exactly
\* one sentinel.
C34_OneSentinelLast ==
    mode = "streamed" =>
        /\ SentinelPositions \subseteq {Len(eventQueue)}
        /\ pc = "done" => SentinelPositions = {Len(eventQueue)}

C34_Witness ==
    /\ mode = "streamed" /\ pc = "done"
    /\ error.kind = "OutputGuardrailTripwireTriggered"
    /\ currentTurn = 2
    /\ Len(eventQueue) > 2
    /\ SentinelPositions = {Len(eventQueue)}

-----------------------------------------------------------------------------
-----------------------------------------------------------------------------
(* ComputerAction.execute on one computer call *)

ActionInit ==
    /\ RunIdle
    /\ StepIdle
    /\ BatchIdle
    /\ CloneIdle
    /\ ScopeIdle
    /\ actionPc = "execute"
    /\ toolCall \in ComputerToolCallsGiven
    /\ computerIsAsync \in BOOLEAN
    /\ computerCalls = <<>>
    /\ actionOutput = NoCallOutput

\* the calls that the output function of the action makes in all
OutputFuncCalls ==
    IF computerIsAsync THEN GetScreenshotAsync(toolCall) ELSE GetScreenshotSync(toolCall)

\* outputFunc = getScreenshotAsync(...) or getScreenshotSync(...): the function runs to its
\* first await, which on a synchronous computer is its end
ComputerAction_Execute ==
    /\ actionPc = "execute"
    /\ computerCalls' = IF computerIsAsync
                        THEN <<Head(OutputFuncCalls)>>
                        ELSE OutputFuncCalls
    /\ actionPc' = "await_output"
    /\ UNCHANGED <<engineVars, batchVars, cloneVars, scopeVars, toolCall, computerIsAsync, actionOutput>>

\* an awaited call of the asynchronous computer returns and the next call is made
ComputerAction_NextCall ==
    /\ actionPc = "await_output"
    /\ Len(computerCalls) < Len(OutputFuncCalls)
    /\ computerCalls' = Append(computerCalls, OutputFuncCalls[Len(computerCalls) + 1])
    /\ UNCHANGED <<engineVars, batchVars, cloneVars, scopeVars, actionPc, toolCall, computerIsAsync,
                   actionOutput>>

\* output = await outputFunc, then the ToolCallOutputItem
ComputerAction_Return ==
    /\ actionPc = "await_output"
    /\ Len(computerCalls) = Len(OutputFuncCalls)
    /\ actionOutput' = ComputerCallOutput(toolCall.call_id, Screenshot(Len(computerCalls)))
    /\ actionPc' = "returned"
    /\ UNCHANGED <<engineVars, batchVars, cloneVars, scopeVars, toolCall, computerIsAsync, computerCalls>>

ActionNext ==
    \/ ComputerAction_Execute
    \/ ComputerAction_NextCall
    \/ ComputerAction_Return

ActionSpec == ActionInit /\ [][ActionNext]_vars

-----------------------------------------------------------------------------
(* C35 *)

\* the method of Computer and AsyncComputer that performs an action of the given type
MatchingMethod(type) ==
    CASE type = "click" -> "click"
      [] type = "double_click" -> "doubleClick"
      [] type = "drag" -> "drag"
      [] type = "keypress" -> "keypress"
      [] type = "move" -> "move"
      [] type = "screenshot" -> "screenshot"
      [] type = "scroll" -> "scroll"
      [] type = "type" -> "type"
      [] type = "wait" -> "wait"

\* the arguments of that method, taken from the action
MatchingArguments(action) ==
    CASE action.type = "click" -> <<action.x, action.y, action.button>>
      [] action.type \in {"double_click", "move"} -> <<action.x, action.y>>
      [] action.type = "drag" -> <<PathPairs(action.path)>>
      [] action.type = "keypress" -> <<action.keys>>
      [] action.type = "scroll" -> <<action.x, action.y, action.scroll_x, action.scroll_y>>
      [] action.type = "type" -> <<action.text>>
      [] action.type \in {"screenshot", "wait"} -> <<>>

\* C35: when the handler of a computer action has returned, the computer was called twice:
\* first the method matching the action's type with the action's arguments, then
\* screenshot; the output item carries the call_id of the action and the image of that
\* last screenshot. This holds on a synchronous and on an asynchronous computer.
C35_ActionThenScreenshot ==
    actionPc = "returned" =>
        /\ Len(computerCalls) = 2
        /\ computerCalls[1].method = MatchingMethod(toolCall.action.type)
        /\ computerCalls[1].args = MatchingArguments(toolCall.action)
        /\ computerCalls[2] = ComputerCall("screenshot", <<>>)
        /\ actionOutput = ComputerCallOutput(toolCall.call_id, Screenshot(2))

-----------------------------------------------------------------------------
-----------------------------------------------------------------------------
(* The runs of the agents with an output type *)

StructuredInit ==
    /\ \E m \in Modes : \E agent \in StructuredAgents : StartOfRunOf(agent, m)
    /\ LibIdle
    /\ maxTurns \in 0..MaxTurnsBound
    /\ inputGuardrails \in GuardrailLists
    /\ first = NoFirst
    /\ inputFilter = Null
    /\ handoffInputFilter = Null
    /\ StepIdle

StructuredSpec == StructuredInit /\ [][Next]_vars

-----------------------------------------------------------------------------
(* C36 *)

\* the text of the last message of a response, Null when it has no message
ResponseLastText(response) ==
    LET idx == {i \in 1..Len(response.output) : response.output[i].type = "message"}
    IN  IF idx = {} THEN Null ELSE response.output[Max(idx)].text

FunctionCallsOf(response) ==
    LET isCall(o) == o.type = "function_call"
    IN  SelectSeq(response.output, isCall)

\* the response of the k-th completed turn
ResponseOfTurn(k) == ResponseById(rawResponses[k])

\* the turn of newResponse ended in an error
TurnFailed == pc = "done" /\ error.kind # "none" /\ newResponse # NoResponse

\* a text that is JSON and, for a wrapped output type, an object with the key 'response'
IsValidOutput(agent, text) ==
    LET parsed == JSONParse(text)
    IN  /\ parsed.ok
        /\ GetOutputSchema(agent).isWrapped =>
              parsed.typeof = "object" /\ "response" \in parsed.keys

\* the turn k is the last of the run, it decided a final output, the outputs of every
\* function call of its response are among the items and the model was not called again
EndsWithFinalOutput(k) ==
    /\ decisions[k].type = "final_output"
    /\ k = Len(decisions)
    /\ modelCalls = k
    /\ \A c \in 1..Len(FunctionCallsOf(ResponseOfTurn(k))) :
          LET call == FunctionCallsOf(ResponseOfTurn(k))[c]
          IN  \E j \in 1..Len(generatedItems) :
                 generatedItems[j] = ToolCallOutputItem(currentAgent, call, ToolValue(call.name))

\* C36 as stated: for an agent with an output type, every turn whose last message has a
\* non-empty text ends the run with a final output in that turn, with or without function
\* calls in the response; no such turn ends in an error.
C36_TextEndsTheRun ==
    currentAgent \in StructuredAgents =>
        /\ \A k \in 1..Len(decisions) :
              Truthy(ResponseLastText(ResponseOfTurn(k))) => EndsWithFinalOutput(k)
        /\ TurnFailed => ~Truthy(ResponseLastText(newResponse))

\* C36, amended: for an agent with an output type, every turn whose last message has a
\* non-empty text that is valid for the type ends the run with a final output in that
\* turn, also when the response requested function tools: their outputs are among the
\* items and the model is not called again; no such turn ends in an error.
C36_ValidTextEndsTheRun ==
    currentAgent \in StructuredAgents =>
        /\ \A k \in 1..Len(decisions) :
              LET text == ResponseLastText(ResponseOfTurn(k))
              IN  (Truthy(text) /\ IsValidOutput(currentAgent, text)) => EndsWithFinalOutput(k)
        /\ TurnFailed =>
              ~(/\ Truthy(ResponseLastText(newResponse))
                /\ IsValidOutput(currentAgent, ResponseLastText(newResponse)))

C36_Witness ==
    /\ currentAgent = "W"
    /\ pc = "done"
    /\ Len(decisions) = 2
    /\ rawResponses = <<"resp_tool_only", "resp_wrapped_tool">>
    /\ finalOutput = "7"
    /\ EndsWithFinalOutput(2)

-----------------------------------------------------------------------------
(* C37 *)

-----------------------------------------------------------------------------
(* C38 *)

StartedSpans == {id \in SpanIds : spans[id].state # "new"}

\* every scoped operation launched has returned or thrown, the ones left behind by a
\* rejected Promise.all included
AllOperationsOver == \A id \in SpanIds : scopeOps[id].kind # "none" => Settled(id)

\* C38: no span reports its end more than once, however often finish is called on it; and
\* when the run is over and every operation it launched has returned or thrown, every span
\* that was started (agent, function, guardrail, handoff) is finished and has reported
\* its end exactly once.
C38_SpansFinishedOnce ==
    /\ \A id \in SpanIds : spans[id].ends <= 1
    /\ (scopePc = "done" /\ AllOperationsOver) =>
          \A id \in StartedSpans : spans[id].state = "finished" /\ spans[id].ends = 1

C38_Witness ==
    /\ scopePc = "done"
    /\ AllOperationsOver
    /\ \E id \in SpanIds : scopeOps[id].kind = "function" /\ scopeOps[id].outcome = "throws"
    /\ \E id \in SpanIds : scopeOps[id].kind = "handoff"
    /\ \E id \in StartedSpans : spans[id].finishCalls = 2 /\ spans[id].ends = 1

-----------------------------------------------------------------------------
(* C39 *)

EndHookPositions == CallPositions("onAgentEnd") \cup CallPositions("onEnd")

FinalOutputTurns == {k \in 1..Len(decisions) : decisions[k].type = "final_output"}

\* the end hooks in the log of a run: one call of each for the turn that computed the final
\* output and none otherwise, made with the agent and the output of that turn, after every
\* model call and before every output guardrail
EndHooksOfRun ==
    /\ Cardinality(CallPositions("onAgentEnd")) = Cardinality(FinalOutputTurns)
    /\ Cardinality(CallPositions("onEnd")) = Cardinality(FinalOutputTurns)
    /\ Cardinality(FinalOutputTurns) <= 1
    /\ \A p \in EndHookPositions :
          /\ callLog[p].agent = currentAgent
          /\ callLog[p].other = turnOutput
          /\ callLog[p].owner = IF callLog[p].call = "onAgentEnd" THEN RunWide ELSE currentAgent
          /\ \A q \in CallPositions("getResponse") : q < p
          /\ \A q \in CallPositions("output_guardrail") : p < q

EndHookEvents == {k \in 1..Len(toolLog) : toolLog[k].call \in {"onAgentEnd", "onEnd"}}

\* the end hooks in the log of a step: called only by a step that returned a final output,
\* once each, when every function tool has fulfilled and every computer action has
\* returned its screenshot, and after every call and hook of the tools
EndHooksOfStep ==
    /\ EndHookEvents # {} <=>
          (stepPc = "done" /\ stepResult.ok /\ stepResult.nextStep.type = "final_output")
    /\ EndHookEvents # {} =>
          /\ EndHookEvents = {Len(toolLog) - 1, Len(toolLog)}
          /\ toolLog[Len(toolLog) - 1] = ToolEvent("onAgentEnd", RunWide, "final_output", 0)
          /\ toolLog[Len(toolLog)] = ToolEvent("onEnd", stepAgent, "final_output", 0)
          /\ ToolsReturned
          /\ \A i \in 1..Len(stepProcessed.functions) :
                ToolLogPositions("result", "function", i) # {}

\* C39: onAgentEnd and onEnd are called exactly once in a run that computes a final output,
\* with the agent that produced it, after the tool calls of the final turn have completed
\* and before any output guardrail is started, also when an output guardrail then trips;
\* they are never called on a turn that ends in a handoff or runs again.
C39_AgentEndHooks ==
    /\ EndHooksOfRun
    /\ EndHooksOfStep
    /\ error.kind = "OutputGuardrailTripwireTriggered" =>
          CallPositions("onAgentEnd") # {} /\ CallPositions("onEnd") # {}

C39_Witness ==
    /\ error.kind = "OutputGuardrailTripwireTriggered"
    /\ Len(decisions) = 2
    /\ decisions[1].type = "handoff"
    /\ currentAgent = "B"
    /\ Cardinality(EndHookPositions) = 2

-----------------------------------------------------------------------------
-----------------------------------------------------------------------------
(* A BatchTraceProcessor with its timer, fed by the tracing of the runs *)

BatchInit ==
    /\ RunIdle
    /\ StepIdle
    /\ CloneIdle
    /\ ScopeIdle
    /\ ActionIdle
    /\ processorPc = "running"
    /\ maxQueueSize \in 1..MaxQueueSize
    /\ maxBatchSize \in 1..MaxBatchSize
    /\ processorQueue = <<>>
    /\ isShutdown = FALSE
    /\ arrived = 0
    /\ accepted = <<>>
    /\ exportedBatches = <<>>
    /\ lastCall = "none"

\* onTraceStart(trace) and onSpanEnd(span): pushed unless the queue is full
Processor_Push(method) ==
    /\ processorPc = "running"
    /\ arrived < MaxItems
    /\ arrived' = arrived + 1
    /\ IF Len(processorQueue) < maxQueueSize
       THEN /\ processorQueue' = Append(processorQueue, arrived + 1)
            /\ accepted' = Append(accepted, arrived + 1)
       ELSE UNCHANGED <<processorQueue, accepted>>
    /\ lastCall' = method
    /\ UNCHANGED <<engineVars, cloneVars, scopeVars, actionVars, processorPc, maxQueueSize,
                   maxBatchSize, isShutdown, exportedBatches>>

BatchTraceProcessor_OnTraceStart == Processor_Push("onTraceStart")

BatchTraceProcessor_OnSpanEnd == Processor_Push("onSpanEnd")

\* processQueue, called by the interval timer until shutdown clears it: exports when the
\* export time has come or the queue has reached the trigger size
BatchTraceProcessor_ProcessQueue ==
    /\ processorPc = "running"
    /\ ~isShutdown
    /\ \E timeHasCome \in BOOLEAN :
          IF timeHasCome \/ Len(processorQueue) >= ExportTriggerSize(maxQueueSize)
          THEN /\ exportedBatches' = exportedBatches
                                         \o ExportBatches(processorQueue, FALSE, maxBatchSize)
               /\ processorQueue' = <<>>
          ELSE UNCHANGED <<exportedBatches, processorQueue>>
    /\ lastCall' = "processQueue"
    /\ UNCHANGED <<engineVars, cloneVars, scopeVars, actionVars, processorPc, maxQueueSize,
                   maxBatchSize, isShutdown, arrived, accepted>>

\* forceFlush: exportBatches(true)
BatchTraceProcessor_ForceFlush ==
    /\ processorPc = "running"
    /\ exportedBatches' = exportedBatches \o ExportBatches(processorQueue, TRUE, maxBatchSize)
    /\ processorQueue' = <<>>
    /\ lastCall' = "forceFlush"
    /\ UNCHANGED <<engineVars, cloneVars, scopeVars, actionVars, processorPc, maxQueueSize,
                   maxBatchSize, isShutdown, arrived, accepted>>

\* shutdown: isShutdown = true, the interval is cleared, forceFlush
BatchTraceProcessor_Shutdown ==
    /\ processorPc = "running"
    /\ ~isShutdown
    /\ isShutdown' = TRUE
    /\ exportedBatches' = exportedBatches \o ExportBatches(processorQueue, TRUE, maxBatchSize)
    /\ processorQueue' = <<>>
    /\ lastCall' = "shutdown"
    /\ UNCHANGED <<engineVars, cloneVars, scopeVars, actionVars, processorPc, maxQueueSize,
                   maxBatchSize, arrived, accepted>>

BatchNext ==
    \/ BatchTraceProcessor_OnTraceStart
    \/ BatchTraceProcessor_OnSpanEnd
    \/ BatchTraceProcessor_ProcessQueue
    \/ BatchTraceProcessor_ForceFlush
    \/ BatchTraceProcessor_Shutdown

BatchSpec == BatchInit /\ [][BatchNext]_vars

-----------------------------------------------------------------------------
(* C40 *)

\* the items handed to the exporter, in the order they were handed over
RECURSIVE ExportedItems(_)
ExportedItems(batches) ==
    IF batches = <<>> THEN <<>> ELSE Head(batches).items \o ExportedItems(Tail(batches))

\* C40: the queue never holds more than maxQueueSize items; the items handed to the
\* exporter followed by the items on the queue are the accepted items in the order they
\* arrived, so that an item arriving at a full queue leaves the queue as it was and every
\* accepted item is exported once, first in first out; a batch that was not forced has at
\* most maxBatchSize items and no batch is empty; the queue is empty after forceFlush and
\* after shutdown.
C40_BatchQueue ==
    processorPc = "running" =>
        /\ Len(processorQueue) <= maxQueueSize
        /\ ExportedItems(exportedBatches) \o processorQueue = accepted
        /\ \A k \in 1..Len(accepted) : \A j \in 1..Len(accepted) :
              k < j => accepted[k] < accepted[j]
        /\ \A b \in 1..Len(exportedBatches) :
              /\ exportedBatches[b].items # <<>>
              /\ ~exportedBatches[b].force => Len(exportedBatches[b].items) <= maxBatchSize
        /\ lastCall \in {"forceFlush", "shutdown"} => processorQueue = <<>>

C40_Witness ==
    /\ processorPc = "running"
    /\ isShutdown
    /\ Len(accepted) < arrived
    /\ processorQueue = <<>>
    /\ \E b \in 1..Len(exportedBatches) :
          exportedBatches[b].force /\ Len(exportedBatches[b].items) > maxBatchSize
    /\ \E b \in 1..Len(exportedBatches) : ~exportedBatches[b].force

====
